---- MODULE Spec2Model ----
(***************************************************************************)
(* A model of the August integration's device state cache and activity     *)
(* stream: the ActivityStream of activity.py, the AugustData facade of     *)
(* __init__.py and the AugustLock entity of lock.py.                       *)
(*                                                                         *)
(* Python values: None is the empty tuple and a present value x is <<x>>,  *)
(* so that an Optional is always a tuple.  A dict is a function whose      *)
(* DOMAIN is the set of its keys.  A raised exception is recorded by its   *)
(* class name.                                                             *)
(***************************************************************************)
EXTENDS Integers, Sequences, FiniteSets, TLC

None == <<>>
Some(x) == <<x>>

\* ------------------------------------------------------------------------
\* Bounds of the model
\* ------------------------------------------------------------------------

\* activity_start_time ranges over 1..MaxStartTime
MaxStartTime == 2

\* the longest activity list one get_house_activities call returns
MaxFeed == 2

\* the calls of _async_update the timer makes
MaxTicks == 2

\* ------------------------------------------------------------------------
\* The vendor's world, as far as the activity stream sees it
\* ------------------------------------------------------------------------

DeviceIds == {"D1", "D2"}

HouseIds == {"H1", "H2"}

\* device.house_id
HouseOf(device_id) == IF device_id = "D1" THEN "H1" ELSE "H2"

ActivityTypes == {"door_operation", "lock_operation"}

Operators == {"Alice", "Bob"}

\* august.activity.Activity, an immutable record
Activities ==
    [device_id : DeviceIds,
     activity_type : ActivityTypes,
     activity_start_time : 1..MaxStartTime,
     operated_by : Operators]

SeqsUpTo(S, n) == UNION {[1..k -> S] : k \in 0..n}

\* what api.get_house_activities(token, house_id, limit) may return
Feeds(house_id) ==
    SeqsUpTo({a \in Activities : HouseOf(a.device_id) = house_id}, MaxFeed)

\* the orders in which a Python set of house ids may be iterated
Orders(S) == {o \in SeqsUpTo(S, Cardinality(S)) :
                 /\ Len(o) = Cardinality(S)
                 /\ \A i, j \in 1..Len(o) : i # j => o[i] # o[j]}

\* what authenticator.refresh_access_token may do once it asks the vendor
RefreshOutcomes == {"ok", "RequestException"}

\* the lists of activity types a caller may pass
TypeLists == {l \in SeqsUpTo(ActivityTypes, 2) :
                 /\ Len(l) >= 1
                 /\ \A i, j \in 1..Len(l) : i # j => l[i] # l[j]}

VARIABLES
    \* ActivityStream
    house_order,                   \* self._house_ids, in its iteration order
    latest_activities_by_id_type,  \* self._latest_activities_by_id_type
    timer_active,                  \* the time-interval listener is registered
    tick_pc,                       \* where the current _async_update is
    tick_houses,                   \* houses the for loop has not reached yet
    tick_activities,               \* activities the merge loop has not reached
    updated_device_ids,            \* the merge loop's local set
    tick_error,                    \* exception that ended the last tick
    signals,                       \* dispatcher sends of the current tick
    tick_replaced,                 \* devices whose entry the tick replaced
    tick_discarded,                \* devices an activity of which it skipped
    reading,                       \* a get_latest_device_activity in its loop
    query                          \* the last get_latest_device_activity call

streamVars ==
    <<house_order, latest_activities_by_id_type, timer_active, tick_pc,
      tick_houses, tick_activities, updated_device_ids, tick_error, signals,
      tick_replaced, tick_discarded, reading, query>>

VARIABLES
    \* AugustData
    session,               \* "new", "ready", or "failed" when __init__ raised
    now,                   \* utcnow(), in seconds since the session began
    advances,              \* how often the clock has moved
    api_locks,             \* what api.get_operable_locks returns
    locks,                 \* self._locks
    doorbells,             \* self._doorbells
    house_ids,             \* self._house_ids
    lock_detail_by_id,     \* self._lock_detail_by_id
    doorbell_detail_by_id, \* self._doorbell_detail_by_id
    activities_by_id,      \* self._activities_by_id
    throttle,              \* when each throttled method last ran
    first_lock_detail,     \* the mapping the constructor's fetch produced
    filter_runs,           \* calls of _filter_inoperative_locks
    last_fetch,            \* when each device type was last batch fetched
    jobs,                  \* the executor jobs whose coroutine has not resumed
    \* AugustLock, one entity for each lock
    entity_lock_detail,    \* self._lock_detail
    entity_detail_is_cached, \* self._lock_detail is the cached object
    \* what the last step did; cleared by the steps that follow
    last_refresh,          \* the detail refresh requests it made
    last_batch,            \* the _update_device_detail call it made
    last_command,          \* the lock or unlock command it issued
    last_read              \* the detail it read through the facade

dataVars ==
    <<session, now, advances, api_locks, locks, doorbells, house_ids,
      lock_detail_by_id, doorbell_detail_by_id, activities_by_id, throttle,
      first_lock_detail, filter_runs, last_fetch, jobs, entity_lock_detail,
      entity_detail_is_cached, last_refresh, last_batch, last_command,
      last_read>>

VARIABLES
    \* the access token and the callers of _async_refresh_access_token_if_needed
    token_valid,           \* not authenticator.should_refresh()
    expiries,              \* how often the token has run out
    token_refresh_lock,    \* the caller that holds the asyncio.Lock, or None
    token_refresh_waiters, \* the callers queued on the lock, first come first
    caller_pc,             \* where each caller is
    caller_result,         \* what each caller's last authenticator call did
    token_refreshes,       \* token refreshes the authenticator has performed
    access_token,          \* self._access_token: the refresh that issued it
    last_api_call          \* the last vendor call that carried the token

tokenVars ==
    <<token_valid, expiries, token_refresh_lock, token_refresh_waiters,
      caller_pc, caller_result, token_refreshes, access_token, last_api_call>>

VARIABLES
    \* the config entry (async_setup_entry, async_unload_entry)
    entry_state,           \* the state the core keeps for the entry
    setups,                \* returns of authenticate in async_setup_august
    last_auth,             \* what authenticate did, in the step it returned
    setup_result,          \* what async_setup_august returned, in that step
    hass_data,             \* hass.data[DOMAIN][entry_id]: None, or the
                           \* AugustData stored there and its connection
    forward_tasks,         \* async_forward_entry_setup tasks not yet run
    forwarded,             \* the platforms that are set up, each with the
                           \* connection of the AugustData its entities hold
    configuring,           \* entry_id in _CONFIGURING
    open_requests,         \* the requests the configurator shows
    codes_sent,            \* calls of authenticator.send_verification_code
    config_requests,       \* calls of configurator.async_request_config
    requests_done,         \* calls of configurator.async_request_done
    run_pc,                \* where each coroutine of a setup or callback is
    run_conn,              \* its august_connection
    run_origin,            \* "entry" for async_setup_entry, else "callback"
    run_data,              \* the AugustData its executor job has built
    last_validation,       \* what the verification code callback did
    api_http_sessions,     \* the connections whose Session is open
    unloads,               \* the async_unload_entry calls under way
    last_unload            \* what async_unload_entry returned or raised

runVars == <<run_pc, run_conn, run_origin, run_data>>

requestVars ==
    <<configuring, open_requests, codes_sent, config_requests,
      requests_done>>

entryVars ==
    <<entry_state, setups, last_auth, setup_result, hass_data, forward_tasks,
      forwarded, requestVars, runVars, last_validation, api_http_sessions,
      unloads, last_unload>>

VARIABLES
    \* a reader of the session's activities
    last_activities        \* the last async_get_device_activities call

queryVars == <<last_activities>>

VARIABLES
    \* AugustDoorbellBinarySensor, one sensor of one doorbell
    sensor_type,           \* self._sensor_type
    sensor_now,            \* the time, in seconds
    sensor_state,          \* self._state
    sensor_raised,         \* the exception its last update ended with
    check_for_off_update_listener, \* self._check_for_off_update_listener
    pending_timers,        \* point-in-time listeners that are scheduled
    last_fired             \* the timer whose callback ran last

sensorVars ==
    <<sensor_type, sensor_now, sensor_state, sensor_raised,
      check_for_off_update_listener, pending_timers, last_fired>>

VARIABLES
    \* AugustConfigFlow, the flows of the config flow manager
    flow_pc,               \* the step each flow is at
    flow_user_input,       \* the user_input its validate_input call holds
    flow_user_config,      \* self.user_config
    flow_result,           \* what its last step returned or raised
    config_entries         \* hass.config_entries.async_entries(DOMAIN)

flowVars ==
    <<flow_pc, flow_user_input, flow_user_config, flow_result, config_entries>>

\* the readers, entities and flows outside the session, the stream and the
\* entry
otherVars == <<queryVars, sensorVars, flowVars>>

\* what a step of the stream, of the facade, of the token refresh and of
\* the entry leaves alone
nonStreamVars == <<dataVars, tokenVars, entryVars, otherVars>>

nonDataVars == <<streamVars, tokenVars, entryVars, otherVars>>

nonTokenVars == <<streamVars, dataVars, entryVars, otherVars>>

nonEntryVars == <<streamVars, dataVars, tokenVars, otherVars>>

vars == <<streamVars, dataVars, tokenVars, entryVars, otherVars>>

\* ------------------------------------------------------------------------
\* ActivityStream (activity.py)
\* ------------------------------------------------------------------------

NoQuery == [device_id |-> "", activity_types |-> <<>>,
            raised |-> "", type |-> "", items |-> <<>>]

\* dict.setdefault(key, {})
SetDefault(table, key) ==
    IF key \in DOMAIN table THEN table ELSE table @@ (key :> <<>>)

\* dict.get(key): None when the key is missing
DictGet(dict, key) ==
    IF key \in DOMAIN dict THEN Some(dict[key]) ELSE None

\* dict[key] = value
DictSet(dict, key, value) ==
    [k \in DOMAIN dict \cup {key} |-> IF k = key THEN value ELSE dict[k]]

\* the guard of the "continue": the cached activity is there and is newer
IsOlderMutant(lastest_activity, activity) ==
    /\ lastest_activity # None
    /\ lastest_activity[1].activity_start_time < activity.activity_start_time

IsOlder(lastest_activity, activity) ==
    /\ lastest_activity # None
    /\ lastest_activity[1].activity_start_time > activity.activity_start_time

ProcessNewerReturnsUpdated(updated) == Some(updated)

\* what _process_newer_device_activities hands back to its caller: the
\* function ends after its loop without a return statement
ProcessNewerReturn(updated) == None

\* the calls of _async_update, numbered in the order the timer makes them.
\* async_track_time_interval calls _async_update every
\* MIN_TIME_BETWEEN_ACTIVITY_UPDATES, whether or not the call before has
\* returned, and _async_update has no guard of its own.  Each call hands
\* _update_device_activities to the executor, so the merge loops of two
\* calls run on two worker threads and a thread may be preempted between the
\* comparison and the assignment of _process_newer_device_activities
Ticks == 1..MaxTicks

\* one pass of the loop of get_latest_device_activity: the device's entry
\* is looked up, which raises KeyError when the table has none, and the
\* latest activity of the type, when there is one, is appended
ReadType(table, device_id, activity_type, activities) ==
    IF device_id \notin DOMAIN table
    THEN [raised |-> "KeyError", type |-> "", items |-> <<>>]
    ELSE [raised |-> "", type |-> "list",
          items |-> IF activity_type \in DOMAIN table[device_id]
                    THEN Append(activities, table[device_id][activity_type])
                    ELSE activities]

\* the passes of the loop over the types not yet reached, on a table that
\* nobody writes meanwhile
RECURSIVE LatestOfEachType(_, _, _, _)
LatestOfEachType(table, device_id, activity_types, activities) ==
    IF activity_types = <<>>
    THEN [raised |-> "", type |-> "list", items |-> activities]
    ELSE LET r == ReadType(table, device_id, Head(activity_types), activities)
         IN IF r.raised # "" THEN r
            ELSE LatestOfEachType(table, device_id, Tail(activity_types),
                                  r.items)

get_latest_device_activity(table, device_id, activity_types) ==
    LatestOfEachType(table, device_id, activity_types, <<>>)

StreamInit ==
    /\ house_order \in UNION {Orders(S) : S \in SUBSET HouseIds}
    /\ latest_activities_by_id_type = <<>>
    /\ timer_active = TRUE
    /\ tick_pc = [k \in Ticks |-> "idle"]
    /\ tick_houses = [k \in Ticks |-> <<>>]
    /\ tick_activities = [k \in Ticks |-> <<>>]
    /\ updated_device_ids = [k \in Ticks |-> {}]
    /\ tick_error = [k \in Ticks |-> ""]
    /\ signals = [k \in Ticks |-> [d \in DeviceIds |-> 0]]
    /\ tick_replaced = [k \in Ticks |-> {}]
    /\ tick_discarded = [k \in Ticks |-> {}]
    /\ reading = None
    /\ query = NoQuery

\* the timer calls _async_update for the k-th time, whether or not the
\* calls before have returned, and the call suspends on the token refresh.
\* The timer makes MaxTicks calls in all
AsyncUpdate(k) ==
    /\ UNCHANGED nonStreamVars
    /\ timer_active
    /\ tick_pc[k] = "idle"
    /\ \A j \in 1..(k - 1) : tick_pc[j] # "idle"
    /\ tick_pc' = [tick_pc EXCEPT ![k] = "refresh"]
    /\ query' = NoQuery
    /\ UNCHANGED <<house_order, latest_activities_by_id_type, timer_active,
                   tick_houses, tick_activities, updated_device_ids,
                   tick_error, signals, tick_replaced, tick_discarded,
                   reading>>

\* call k resumes from async_refresh_access_token_if_needed: when the
\* refresh returned, _update_device_activities is handed to the executor;
\* when it raised, the exception ends the call and no job is submitted
StartWorker(k) ==
    /\ UNCHANGED nonStreamVars
    /\ tick_pc[k] = "refresh"
    /\ \E outcome \in RefreshOutcomes :
          IF outcome = "ok"
          THEN /\ tick_pc' = [tick_pc EXCEPT ![k] = "fetch"]
               /\ tick_houses' = [tick_houses EXCEPT ![k] = house_order]
               /\ UNCHANGED tick_error
          ELSE /\ tick_pc' = [tick_pc EXCEPT ![k] = "returned"]
               /\ tick_error' = [tick_error EXCEPT ![k] = outcome]
               /\ UNCHANGED tick_houses
    /\ query' = NoQuery
    /\ UNCHANGED <<house_order, latest_activities_by_id_type, timer_active,
                   tick_activities, updated_device_ids, signals,
                   tick_replaced, tick_discarded, reading>>

\* one get_house_activities call of the worker of call k and the entry of
\* the merge
FetchHouse(k) ==
    /\ UNCHANGED nonStreamVars
    /\ tick_pc[k] = "fetch"
    /\ tick_houses[k] # <<>>
    /\ \E activities \in Feeds(Head(tick_houses[k])) :
          tick_activities' = [tick_activities EXCEPT ![k] = activities]
    /\ updated_device_ids' = [updated_device_ids EXCEPT ![k] = {}]
    /\ tick_pc' = [tick_pc EXCEPT ![k] = "process"]
    /\ query' = NoQuery
    /\ UNCHANGED <<house_order, latest_activities_by_id_type, timer_active,
                   tick_houses, tick_error, signals, tick_replaced,
                   tick_discarded, reading>>

\* one pass of the loop of _process_newer_device_activities, up to the
\* "continue" or to the assignment: the setdefault, the get and the
\* comparison.  The workers of the calls under way write the table, each on
\* its thread, and the event loop reads it between any two of their writes
ProcessActivity(k) ==
    /\ UNCHANGED nonStreamVars
    /\ tick_pc[k] = "process"
    /\ tick_activities[k] # <<>>
    /\ LET activity == Head(tick_activities[k])
           table == SetDefault(latest_activities_by_id_type, activity.device_id)
           lastest_activity ==
               DictGet(table[activity.device_id], activity.activity_type)
       IN /\ latest_activities_by_id_type' = table
          /\ IF IsOlder(lastest_activity, activity)
             THEN /\ tick_discarded' =
                         [tick_discarded EXCEPT
                             ![k] = @ \cup {activity.device_id}]
                  /\ tick_activities' =
                         [tick_activities EXCEPT ![k] = Tail(@)]
                  /\ UNCHANGED tick_pc
             ELSE /\ tick_pc' = [tick_pc EXCEPT ![k] = "assign"]
                  /\ UNCHANGED <<tick_discarded, tick_activities>>
    /\ query' = NoQuery
    /\ UNCHANGED <<house_order, timer_active, tick_houses, tick_error,
                   signals, updated_device_ids, tick_replaced, reading>>

\* the rest of the pass: the assignment and updated_device_ids.add
AssignActivity(k) ==
    /\ UNCHANGED nonStreamVars
    /\ tick_pc[k] = "assign"
    /\ LET activity == Head(tick_activities[k])
           table == latest_activities_by_id_type
       IN /\ latest_activities_by_id_type' =
                 DictSet(table, activity.device_id,
                         DictSet(table[activity.device_id],
                                 activity.activity_type, activity))
          /\ updated_device_ids' =
                 [updated_device_ids EXCEPT
                     ![k] = @ \cup {activity.device_id}]
          /\ tick_replaced' =
                 [tick_replaced EXCEPT ![k] = @ \cup {activity.device_id}]
    /\ tick_activities' = [tick_activities EXCEPT ![k] = Tail(@)]
    /\ tick_pc' = [tick_pc EXCEPT ![k] = "process"]
    /\ query' = NoQuery
    /\ UNCHANGED <<house_order, timer_active, tick_houses, tick_error,
                   signals, tick_discarded, reading>>

\* the merge returns; len(updated_device_ids) and _signal_device_updates
FinishHouse(k) ==
    /\ UNCHANGED nonStreamVars
    /\ tick_pc[k] = "process"
    /\ tick_activities[k] = <<>>
    /\ LET ret == ProcessNewerReturn(updated_device_ids[k])
       IN IF ret = None
          THEN \* len(None)
               /\ tick_error' = [tick_error EXCEPT ![k] = "TypeError"]
               /\ tick_pc' = [tick_pc EXCEPT ![k] = "returned"]
               /\ tick_houses' = [tick_houses EXCEPT ![k] = <<>>]
               /\ UNCHANGED signals
          ELSE /\ signals' =
                      [signals EXCEPT
                          ![k] = [d \in DeviceIds |->
                                     IF d \in ret[1] THEN signals[k][d] + 1
                                     ELSE signals[k][d]]]
               /\ tick_houses' = [tick_houses EXCEPT ![k] = Tail(@)]
               /\ tick_pc' = [tick_pc EXCEPT ![k] = "fetch"]
               /\ UNCHANGED tick_error
    /\ updated_device_ids' = [updated_device_ids EXCEPT ![k] = {}]
    /\ query' = NoQuery
    /\ UNCHANGED <<house_order, latest_activities_by_id_type, timer_active,
                   tick_activities, tick_replaced, tick_discarded, reading>>

\* the for loop over the houses is exhausted
EndTick(k) ==
    /\ UNCHANGED nonStreamVars
    /\ tick_pc[k] = "fetch"
    /\ tick_houses[k] = <<>>
    /\ tick_pc' = [tick_pc EXCEPT ![k] = "returned"]
    /\ query' = NoQuery
    /\ UNCHANGED <<house_order, latest_activities_by_id_type, timer_active,
                   tick_houses, tick_activities, updated_device_ids,
                   tick_error, signals, tick_replaced, tick_discarded,
                   reading>>

\* stop()
Stop ==
    /\ UNCHANGED nonStreamVars
    /\ timer_active
    /\ timer_active' = FALSE
    /\ query' = NoQuery
    /\ UNCHANGED <<house_order, latest_activities_by_id_type, tick_pc,
                   tick_houses, tick_activities, updated_device_ids,
                   tick_error, signals, tick_replaced, tick_discarded,
                   reading>>

\* a pass of the loop of a get_latest_device_activity call over the types
\* left, with the activities it has so far.  The call runs on the event
\* loop and the worker of a tick on a thread of the executor: the worker
\* may write the table between two passes.  After the last pass, or when
\* the pass raises, the call returns
ReadPass(device_id, activity_types, left, activities) ==
    LET r == ReadType(latest_activities_by_id_type, device_id, Head(left),
                      activities)
    IN IF r.raised # "" \/ Len(left) = 1
       THEN /\ query' = [device_id |-> device_id,
                         activity_types |-> activity_types] @@ r
            /\ reading' = None
       ELSE /\ reading' = Some([device_id |-> device_id,
                                activity_types |-> activity_types,
                                left |-> Tail(left), items |-> r.items])
            /\ query' = NoQuery

\* an entity calls get_latest_device_activity, between two ticks or while
\* the worker of a tick is anywhere in its merge: the call and the first
\* pass of its loop
GetLatestDeviceActivity ==
    /\ UNCHANGED nonStreamVars
    /\ reading = None
    /\ \E device_id \in DeviceIds, activity_types \in TypeLists :
          ReadPass(device_id, activity_types, activity_types, <<>>)
    /\ query' # query \/ reading' # None
    /\ UNCHANGED <<house_order, latest_activities_by_id_type, timer_active,
                   tick_pc, tick_houses, tick_activities, updated_device_ids,
                   tick_error, signals, tick_replaced, tick_discarded>>

\* the call goes on with the next pass of its loop
GetLatestDeviceActivityNext ==
    /\ UNCHANGED nonStreamVars
    /\ reading # None
    /\ ReadPass(reading[1].device_id, reading[1].activity_types,
                reading[1].left, reading[1].items)
    /\ UNCHANGED <<house_order, latest_activities_by_id_type, timer_active,
                   tick_pc, tick_houses, tick_activities, updated_device_ids,
                   tick_error, signals, tick_replaced, tick_discarded>>

\* the steps of call k
TickNext(k) ==
    \/ AsyncUpdate(k)
    \/ StartWorker(k)
    \/ FetchHouse(k)
    \/ ProcessActivity(k)
    \/ AssignActivity(k)
    \/ FinishHouse(k)
    \/ EndTick(k)

\* the stream: the calls of _async_update the timer makes, and stop()
StreamNext ==
    \/ \E k \in Ticks : TickNext(k)
    \/ Stop

\* the stream and an entity that reads it, between the steps of the first
\* call of the timer
StreamReadNext ==
    \/ TickNext(1)
    \/ Stop
    \/ GetLatestDeviceActivity
    \/ GetLatestDeviceActivityNext

\* ------------------------------------------------------------------------
\* AugustData (__init__.py) and AugustLock (lock.py)
\* ------------------------------------------------------------------------

\* the clock moves at most MaxAdvances times
MaxAdvances == 1

\* the longest activity list one get_house_activities call returns here
MaxDataFeed == 1

\* the executor jobs that are under way together: a job is under way from
\* its submission until its coroutine has resumed
MaxJobsInFlight == 2

MIN_TIME_BETWEEN_DETAIL_UPDATES == 1800

MIN_TIME_BETWEEN_ACTIVITY_UPDATES == 10

\* the clock is looked at when the activity window has just ended, which
\* leaves the detail window open, and when the detail window has ended too
ClockSteps ==
    {MIN_TIME_BETWEEN_ACTIVITY_UPDATES + 1,
     MIN_TIME_BETWEEN_DETAIL_UPDATES + 1}

LockIds == {"L1", "L2"}

DoorbellIds == {"B1", "B2"}

\* device.house_id
DeviceHouse(device_id) ==
    IF device_id = "L1" THEN "H1"
    ELSE IF device_id \in {"L2", "B1"} THEN "H2"
    ELSE "H3"

\* device.device_name, as a list of words
DeviceName(device_id) ==
    IF device_id = "L1" THEN <<"Front", "Door">>
    ELSE IF device_id = "L2" THEN <<"Garage">>
    ELSE IF device_id = "B1" THEN <<"Porch">>
    ELSE <<"Gate">>

Range(seq) == {seq[i] : i \in 1..Len(seq)}

\* august.lock.LockDetail: the bridge is None or has an operative flag
LockDetails(device_id) ==
    {[device_id |-> device_id, bridge |-> None, lock_status |-> "UNKNOWN"],
     [device_id |-> device_id, bridge |-> Some([operative |-> FALSE]),
      lock_status |-> "UNKNOWN"],
     [device_id |-> device_id, bridge |-> Some([operative |-> TRUE]),
      lock_status |-> "LOCKED"],
     [device_id |-> device_id, bridge |-> Some([operative |-> TRUE]),
      lock_status |-> "UNLOCKED"]}

\* august.doorbell.DoorbellDetail
DoorbellDetails(device_id) ==
    {[device_id |-> device_id, is_online |-> TRUE]}

\* what one api.get_lock_detail or api.get_doorbell_detail call does: it
\* returns a detail, raises a RequestException, or raises something else
Outcomes(details) ==
    {[raised |-> "", detail |-> Some(x)] : x \in details}
    \cup {[raised |-> "RequestException", detail |-> None],
          [raised |-> "Exception", detail |-> None]}

\* one outcome for each device of a batch
LockResponses(devices) ==
    {f \in [Range(devices) ->
                UNION {Outcomes(LockDetails(d)) : d \in LockIds}] :
        \A d \in Range(devices) : f[d] \in Outcomes(LockDetails(d))}

DoorbellResponses(devices) ==
    {f \in [Range(devices) ->
                UNION {Outcomes(DoorbellDetails(d)) : d \in DoorbellIds}] :
        \A d \in Range(devices) : f[d] \in Outcomes(DoorbellDetails(d))}

\* the activities of the facade's feed: lock operations
DataActivities ==
    [device_id : LockIds, activity_type : {"lock_operation"},
     action : {"lock", "unlock"}]

\* what api.get_house_activities may return for a house of the account
DataFeeds(house_id) ==
    SeqsUpTo({a \in DataActivities :
                 /\ DeviceHouse(a.device_id) = house_id
                 /\ a.device_id \in Range(api_locks)},
             MaxDataFeed)

\* str(err) of an AugustApiHTTPError, as a list of words
ErrorTexts ==
    {<<"The", "operation", "failed", "because", "the", "bridge", "(connect)",
       "is", "offline.">>}

\* what api.lock_return_activities / api.unlock_return_activities does
CommandOutcomes(device_id, operation_name) ==
    {[raised |-> "", text |-> <<>>,
      activities |-> <<[device_id |-> device_id,
                        activity_type |-> "lock_operation",
                        action |-> operation_name]>>]}
    \cup {[raised |-> "AugustApiHTTPError", text |-> t, activities |-> <<>>] :
             t \in ErrorTexts}

\* the loop of _update_device_detail over the devices not yet reached
RECURSIVE UpdateDeviceDetailLoopBreaks(_, _, _, _)
UpdateDeviceDetailLoopBreaks(devices, responses, detail_by_id, calls) ==
    IF devices = <<>>
    THEN [raised |-> "", detail_by_id |-> detail_by_id, calls |-> calls]
    ELSE LET device_id == Head(devices)
             r == responses[device_id]
             called == Append(calls, device_id)
         IN IF r.raised = "RequestException"
            THEN [raised |-> "",
                  detail_by_id |-> DictSet(detail_by_id, device_id, None),
                  calls |-> called]
            ELSE IF r.raised # ""
            THEN [raised |-> r.raised,
                  detail_by_id |-> DictSet(detail_by_id, device_id, None),
                  calls |-> called]
            ELSE UpdateDeviceDetailLoopBreaks(
                     Tail(devices), responses,
                     DictSet(detail_by_id, device_id, r.detail), called)

RECURSIVE UpdateDeviceDetailLoopSwallows(_, _, _, _)
UpdateDeviceDetailLoopSwallows(devices, responses, detail_by_id, calls) ==
    IF devices = <<>>
    THEN [raised |-> "", detail_by_id |-> detail_by_id, calls |-> calls]
    ELSE LET device_id == Head(devices)
             r == responses[device_id]
         IN UpdateDeviceDetailLoopSwallows(
                Tail(devices), responses,
                DictSet(detail_by_id, device_id,
                        IF r.raised = "" THEN r.detail ELSE None),
                Append(calls, device_id))

\* a device whose request fails gets no key
RECURSIVE UpdateDeviceDetailLoopSkips(_, _, _, _)
UpdateDeviceDetailLoopSkips(devices, responses, detail_by_id, calls) ==
    IF devices = <<>>
    THEN [raised |-> "", detail_by_id |-> detail_by_id, calls |-> calls]
    ELSE LET device_id == Head(devices)
             r == responses[device_id]
             called == Append(calls, device_id)
         IN IF r.raised = "RequestException"
            THEN UpdateDeviceDetailLoopSkips(
                     Tail(devices), responses, detail_by_id, called)
            ELSE IF r.raised # ""
            THEN [raised |-> r.raised,
                  detail_by_id |-> DictSet(detail_by_id, device_id, None),
                  calls |-> called]
            ELSE UpdateDeviceDetailLoopSkips(
                     Tail(devices), responses,
                     DictSet(detail_by_id, device_id, r.detail), called)

RECURSIVE UpdateDeviceDetailLoop(_, _, _, _)
UpdateDeviceDetailLoop(devices, responses, detail_by_id, calls) ==
    IF devices = <<>>
    THEN [raised |-> "", detail_by_id |-> detail_by_id, calls |-> calls]
    ELSE LET device_id == Head(devices)
             r == responses[device_id]
             called == Append(calls, device_id)
         IN IF r.raised = "RequestException"
            THEN UpdateDeviceDetailLoop(
                     Tail(devices), responses,
                     DictSet(detail_by_id, device_id, None), called)
            ELSE IF r.raised # ""
            THEN [raised |-> r.raised,
                  detail_by_id |-> DictSet(detail_by_id, device_id, None),
                  calls |-> called]
            ELSE UpdateDeviceDetailLoop(
                     Tail(devices), responses,
                     DictSet(detail_by_id, device_id, r.detail), called)

\* _update_device_detail(device_type, devices, api_call): the mapping it
\* returns, the exception it raises, and the api calls it made
update_device_detail(devices, responses) ==
    UpdateDeviceDetailLoop(devices, responses, <<>>, <<>>)

\* the if/elif chain of _filter_inoperative_locks for one lock
IsOperativeIgnoresFlag(lock_detail) ==
    /\ lock_detail # None
    /\ lock_detail[1].bridge # None

IsOperative(lock_detail) ==
    /\ lock_detail # None
    /\ lock_detail[1].bridge # None
    /\ lock_detail[1].bridge[1].operative

\* _filter_inoperative_locks: the list it assigns to self._locks
RECURSIVE filter_inoperative_locks(_, _)
filter_inoperative_locks(all_locks, detail_by_id) ==
    IF all_locks = <<>> THEN <<>>
    ELSE LET lock == Head(all_locks)
             lock_detail == IF lock \in DOMAIN detail_by_id
                            THEN detail_by_id[lock] ELSE None
             rest == filter_inoperative_locks(Tail(all_locks), detail_by_id)
         IN IF IsOperative(lock_detail) THEN <<lock>> \o rest ELSE rest

\* homeassistant.util.Throttle: the wrapped method runs when it never ran
\* or ran more than min_time ago
ThrottleRunsAlways(last_called, min_time) == TRUE

ThrottleRuns(last_called, min_time) ==
    \/ last_called = None
    \/ now - last_called[1] > min_time

\* authenticator.should_refresh()
should_refresh == ~token_valid

\* the message of the HomeAssistantError that
\* _call_api_operation_that_requires_bridge raises
BridgeErrorMessage(device_name, operation_name, err_text) ==
    device_name \o <<":">> \o err_text

\* august.util.update_lock_detail_from_activity on a detail that is there
update_lock_detail_from_activity(lock_detail, activity) ==
    IF activity.activity_type = "lock_operation"
    THEN [lock_detail EXCEPT !.lock_status =
             IF activity.action = "lock" THEN "LOCKED" ELSE "UNLOCKED"]
    ELSE lock_detail

RECURSIVE UpdateFromActivities(_, _)
UpdateFromActivities(lock_detail, activities) ==
    IF activities = <<>> THEN lock_detail
    ELSE UpdateFromActivities(
             update_lock_detail_from_activity(lock_detail, Head(activities)),
             Tail(activities))

\* _update_locks_detail assigns self._lock_detail_by_id and nothing else:
\* self._locks is what it was
LocksAfterRefreshRefiltered(detail_by_id) ==
    filter_inoperative_locks(locks, detail_by_id)

LocksAfterRefresh(detail_by_id) == locks

\* get_lock_name: None when no lock of self._locks has the id
get_lock_name(device_id) ==
    IF device_id \in Range(locks) THEN Some(DeviceName(device_id)) ELSE None

\* the mapping a batch built is assigned although the batch raised
AssignedDetailKeepsPartial(b, cached) == b.detail_by_id

\* self._lock_detail_by_id = self._update_device_detail(...): the mapping
\* the facade holds when the call has returned or raised b
AssignedDetail(b, cached) ==
    IF b.raised = "" THEN b.detail_by_id ELSE cached

\* what a step records of a call of a throttled detail refresh
DetailRequest(device_type, ran) ==
    [device_type |-> device_type, ran |-> ran,
     since_fetch |-> IF last_fetch[device_type] = None THEN None
                     ELSE Some(now - last_fetch[device_type][1])]

\* what a step records of a call of the throttled activity refresh
ActivityRequest(ran) ==
    [device_type |-> "activity", ran |-> ran,
     since_fetch |-> IF throttle["device_activities"] = None THEN None
                     ELSE Some(now - throttle["device_activities"][1])]

\* what a step records of a batch the worker ran
Batch(device_type, devices, responses, b) ==
    [device_type |-> device_type, devices |-> devices,
     responses |-> responses, raised |-> b.raised,
     detail_by_id |-> b.detail_by_id, calls |-> b.calls]

\* _update_device_activities of the facade: each device of a feed gets the
\* feed's activities of that device as its list
MergeFeeds(by_id, feeds) ==
    LET fed == {d \in LockIds \cup DoorbellIds :
                   /\ DeviceHouse(d) \in DOMAIN feeds
                   /\ \E i \in 1..Len(feeds[DeviceHouse(d)]) :
                         feeds[DeviceHouse(d)][i].device_id = d}
    IN [d \in DOMAIN by_id \cup fed |->
           IF d \in fed
           THEN SelectSeq(feeds[DeviceHouse(d)], LAMBDA a : a.device_id = d)
           ELSE by_id[d]]

\* async_get_device_activities after the refresh: the device's list,
\* filtered by type
get_device_activities(by_id, device_id, activity_type) ==
    SelectSeq(IF device_id \in DOMAIN by_id THEN by_id[device_id] ELSE <<>>,
              LAMBDA a : a.activity_type = activity_type)

\* next(iter(activities or []), None)
First(activities) ==
    IF activities = <<>> THEN None ELSE Some(Head(activities))

NoCommand == [operation_name |-> "", device_id |-> "", raised |-> "",
              message |-> <<>>, activities |-> <<>>]

NoRead == [device_id |-> "", raised |-> "", value |-> None, fetched |-> FALSE]

\* the methods behind homeassistant.util.Throttle
Methods == {"locks_detail", "doorbells_detail", "device_activities"}

\* AugustData.lock and AugustData.unlock
Operations == {"lock", "unlock"}

\* hass.async_add_executor_job: the coroutine of caller handed the method
\* to the executor and is suspended in its await.  A job is told from the
\* others by its number; early says that a lock command returned after the
\* caller began
Submitted(id, method, caller, device_id, activity_types) ==
    [id |-> id, method |-> method, pc |-> "submitted", caller |-> caller,
     device_id |-> device_id, activity_types |-> activity_types,
     raised |-> "", message |-> <<>>, activities |-> <<>>, early |-> FALSE]

\* the least number no job of js has
NewJobId(js) ==
    CHOOSE i \in 1..(Cardinality(js) + 1) : \A j \in js : j.id # i

\* the bound on the jobs leaves room for one more
Room(js) == Cardinality(js) < MaxJobsInFlight

\* js and one more job
Submit(js, method, caller, device_id, activity_types) ==
    js \cup {Submitted(NewJobId(js), method, caller, device_id,
                       activity_types)}

\* the worker ran job j, which returned or raised
Finish(js, j, raised) ==
    (js \ {j}) \cup {[j EXCEPT !.pc = "finished", !.raised = raised]}

\* the jobs of a method that wait for a worker, or for their coroutine
JobsOf(method, pc) == {j \in jobs : j.method = method /\ j.pc = pc}

\* the entity of lock d is inside async_update
EntityBusy(d) == \E j \in jobs : j.caller = "entity" /\ j.device_id = d

\* the state before AugustData is constructed, with the locks and the
\* doorbells the account has drawn from lock_ids and doorbell_ids
DataInit(lock_ids, doorbell_ids) ==
    /\ session = "new"
    /\ now = 0
    /\ advances = 0
    /\ api_locks \in UNION {Orders(S) : S \in SUBSET lock_ids}
    /\ doorbells \in UNION {Orders(S) : S \in SUBSET doorbell_ids}
    /\ locks = <<>>
    /\ house_ids = {}
    /\ lock_detail_by_id = <<>>
    /\ doorbell_detail_by_id = <<>>
    /\ activities_by_id = <<>>
    /\ throttle = [m \in Methods |-> None]
    /\ jobs = {}
    /\ first_lock_detail = <<>>
    /\ filter_runs = 0
    /\ last_fetch = [t \in {"lock", "doorbell"} |-> None]
    /\ entity_lock_detail = [d \in LockIds |-> None]
    /\ entity_detail_is_cached = [d \in LockIds |-> FALSE]
    /\ last_refresh = {}
    /\ last_batch = {}
    /\ last_command = NoCommand
    /\ last_read = NoRead

\* the houses of the doorbells alone
DiscoveredHouseIdsOfDoorbells(doorbell_list, lock_list) ==
    {DeviceHouse(d) : d \in Range(doorbell_list)}

\* self.house_ids, a set built in AugustData.__init__ from
\* self._doorbells + self._locks before any lock is filtered out
DiscoveredHouseIds(doorbell_list, lock_list) ==
    {DeviceHouse(d) : d \in Range(doorbell_list) \cup Range(lock_list)}

\* AugustData.__init__: the object it has built when it returns or raises.
\* _update_locks_detail and _update_doorbells_detail are called without
\* the throttle
AugustData(lock_responses, doorbell_responses) ==
    LET lb == update_device_detail(api_locks, lock_responses)
        db == update_device_detail(doorbells, doorbell_responses)
        lock_batch == [device_type |-> "lock", devices |-> api_locks,
                       responses |-> lock_responses, raised |-> lb.raised,
                       detail_by_id |-> lb.detail_by_id, calls |-> lb.calls]
        doorbell_batch == [device_type |-> "doorbell", devices |-> doorbells,
                           responses |-> doorbell_responses,
                           raised |-> db.raised,
                           detail_by_id |-> db.detail_by_id,
                           calls |-> db.calls]
        lock_request == [device_type |-> "lock", ran |-> TRUE,
                         since_fetch |-> None]
        doorbell_request == [device_type |-> "doorbell", ran |-> TRUE,
                             since_fetch |-> None]
    IN IF lb.raised # ""
       THEN \* self._update_locks_detail() raises
            [session |-> "failed",
             house_ids |-> DiscoveredHouseIds(doorbells, api_locks),
             locks |-> api_locks,
             lock_detail_by_id |-> <<>>,
             first_lock_detail |-> <<>>,
             filter_runs |-> 0,
             doorbell_detail_by_id |-> <<>>,
             last_batch |-> {lock_batch},
             last_refresh |-> {lock_request},
             last_fetch |-> [t \in {"lock", "doorbell"} |->
                               IF t = "lock" THEN Some(now) ELSE None]]
       ELSE [session |-> IF db.raised # "" THEN "failed" ELSE "ready",
             house_ids |-> DiscoveredHouseIds(doorbells, api_locks),
             locks |-> filter_inoperative_locks(api_locks, lb.detail_by_id),
             lock_detail_by_id |-> lb.detail_by_id,
             first_lock_detail |-> lb.detail_by_id,
             filter_runs |-> 1,
             doorbell_detail_by_id |->
                 IF db.raised # "" THEN <<>> ELSE db.detail_by_id,
             last_batch |-> {lock_batch, doorbell_batch},
             last_refresh |-> {lock_request, doorbell_request},
             last_fetch |-> [t \in {"lock", "doorbell"} |-> Some(now)]]

\* the session that is followed is the object data
FollowData(data) ==
    /\ session' = data.session
    /\ house_ids' = data.house_ids
    /\ locks' = data.locks
    /\ lock_detail_by_id' = data.lock_detail_by_id
    /\ first_lock_detail' = data.first_lock_detail
    /\ filter_runs' = data.filter_runs
    /\ doorbell_detail_by_id' = data.doorbell_detail_by_id
    /\ last_batch' = data.last_batch
    /\ last_refresh' = data.last_refresh
    /\ last_fetch' = data.last_fetch
    /\ UNCHANGED <<now, advances, api_locks, doorbells, activities_by_id,
                   throttle, jobs, entity_lock_detail,
                   entity_detail_is_cached, last_command, last_read>>

\* AugustData.__init__ runs, with what the vendor answers
ConstructData ==
    \E lock_responses \in LockResponses(api_locks),
       doorbell_responses \in DoorbellResponses(doorbells) :
        FollowData(AugustData(lock_responses, doorbell_responses))

\* AugustData.__init__ on its own
Construct ==
    /\ session = "new"
    /\ ConstructData
    /\ UNCHANGED nonDataVars

\* time passes, whatever job is on the executor
AdvanceClock ==
    /\ session = "ready"
    /\ advances < MaxAdvances
    /\ \E step \in ClockSteps : now' = now + step
    /\ advances' = advances + 1
    /\ last_refresh' = {}
    /\ last_batch' = {}
    /\ last_command' = NoCommand
    /\ last_read' = NoRead
    /\ UNCHANGED <<session, api_locks, locks, doorbells, house_ids,
                   lock_detail_by_id, doorbell_detail_by_id, activities_by_id,
                   throttle, first_lock_detail, filter_runs, last_fetch, jobs,
                   entity_lock_detail, entity_detail_is_cached>>
    /\ UNCHANGED nonDataVars

\* the end of AugustLock.async_update, from the return of
\* async_get_latest_device_activity on: the entity's detail object is
\* patched with the latest lock operation the facade holds.  The object is
\* the one in the cache unless a refresh replaced the mapping meanwhile
EntityPatches(d, detail, is_cached) ==
    LET lock_activity ==
            First(get_device_activities(activities_by_id, d,
                                        "lock_operation"))
        patched ==
            IF detail # None /\ lock_activity # None
            THEN Some(update_lock_detail_from_activity(
                          detail[1], lock_activity[1]))
            ELSE detail
    IN /\ entity_lock_detail' = [entity_lock_detail EXCEPT ![d] = patched]
       /\ lock_detail_by_id' =
              IF is_cached THEN [lock_detail_by_id EXCEPT ![d] = patched]
              ELSE lock_detail_by_id
       /\ entity_detail_is_cached' =
              [entity_detail_is_cached EXCEPT
                  ![d] = is_cached /\ patched # None]

\* AugustLock.async_update from the return of async_get_lock_detail on.
\* A refresh that raised, or a missing key, ends the update; otherwise
\* self._lock_detail is assigned and async_get_latest_device_activity
\* calls the throttled activity refresh.  Inside its window the refresh
\* returns at once and the update goes on to its end; outside, the refresh
\* finds a token that needs no refresh (one that does is followed with
\* the callers of the token refresh) and the update is suspended on the
\* executor job
EntityGetsDetail(d, requests, raised, other_jobs) ==
    IF raised # "" \/ d \notin DOMAIN lock_detail_by_id
    THEN /\ last_refresh' = requests
         /\ jobs' = other_jobs
         /\ UNCHANGED <<throttle, lock_detail_by_id, entity_lock_detail,
                        entity_detail_is_cached>>
    ELSE LET detail == lock_detail_by_id[d]
             runs == ThrottleRuns(throttle["device_activities"],
                                  MIN_TIME_BETWEEN_ACTIVITY_UPDATES)
         IN /\ last_refresh' = requests \cup {ActivityRequest(runs)}
            /\ IF runs
               THEN /\ ~should_refresh
                    /\ Room(other_jobs)
                    /\ throttle' = [throttle EXCEPT
                                       !["device_activities"] = Some(now)]
                    /\ jobs' = Submit(other_jobs, "device_activities",
                                      "entity", d, {})
                    /\ entity_lock_detail' =
                           [entity_lock_detail EXCEPT ![d] = detail]
                    /\ entity_detail_is_cached' =
                           [entity_detail_is_cached EXCEPT
                               ![d] = detail # None]
                    /\ UNCHANGED lock_detail_by_id
               ELSE /\ EntityPatches(d, detail, TRUE)
                    /\ jobs' = other_jobs
                    /\ UNCHANGED throttle

\* AugustLock.async_update of the entity of one lock, up to its first
\* await: async_get_lock_detail calls the throttled detail refresh, which
\* takes its timestamp and is handed to the executor, or returns at once
\* inside its window
AsyncUpdateEntity ==
    /\ session = "ready"
    /\ \E d \in Range(locks) :
          /\ ~EntityBusy(d)
          /\ LET runs == ThrottleRuns(throttle["locks_detail"],
                                      MIN_TIME_BETWEEN_DETAIL_UPDATES)
                 request == {DetailRequest("lock", runs)}
             IN IF runs
                THEN /\ Room(jobs)
                     /\ throttle' = [throttle EXCEPT
                                        !["locks_detail"] = Some(now)]
                     /\ jobs' = Submit(jobs, "locks_detail", "entity",
                                       d, {})
                     /\ last_refresh' = request
                     /\ UNCHANGED <<lock_detail_by_id, entity_lock_detail,
                                    entity_detail_is_cached>>
                ELSE EntityGetsDetail(d, request, "", jobs)
    /\ last_batch' = {}
    /\ last_command' = NoCommand
    /\ last_read' = NoRead
    /\ UNCHANGED <<session, now, advances, api_locks, locks, doorbells,
                   house_ids, doorbell_detail_by_id, activities_by_id,
                   first_lock_detail, filter_runs, last_fetch>>
    /\ UNCHANGED nonDataVars

\* _update_locks_detail on the executor: the batch is fetched and, unless
\* it raised, assigned to self._lock_detail_by_id
UpdateLocksDetail ==
    /\ \E j \in JobsOf("locks_detail", "submitted"),
          responses \in LockResponses(locks) :
          LET b == update_device_detail(locks, responses)
          IN /\ lock_detail_by_id' = AssignedDetail(b, lock_detail_by_id)
             /\ entity_detail_is_cached' =
                    IF b.raised = "" THEN [e \in LockIds |-> FALSE]
                    ELSE entity_detail_is_cached
             /\ locks' = IF b.raised = ""
                         THEN LocksAfterRefresh(b.detail_by_id) ELSE locks
             /\ last_batch' = {Batch("lock", locks, responses, b)}
             /\ jobs' = Finish(jobs, j, b.raised)
             /\ last_command' = IF j.caller = "reader" /\ ~j.early
                                THEN last_command ELSE NoCommand
    /\ last_fetch' = [last_fetch EXCEPT !["lock"] = Some(now)]
    /\ last_refresh' = {}
    /\ last_read' = NoRead
    /\ UNCHANGED <<session, now, advances, api_locks, doorbells, house_ids,
                   doorbell_detail_by_id, activities_by_id, throttle,
                   first_lock_detail, filter_runs, entity_lock_detail>>
    /\ UNCHANGED nonDataVars

\* the entity's update resumes after its detail refresh
EntityResumesWithDetail ==
    /\ \E j \in JobsOf("locks_detail", "finished") :
          /\ j.caller = "entity"
          /\ EntityGetsDetail(j.device_id, {}, j.raised, jobs \ {j})
    /\ last_batch' = {}
    /\ last_command' = NoCommand
    /\ last_read' = NoRead
    /\ UNCHANGED <<session, now, advances, api_locks, locks, doorbells,
                   house_ids, doorbell_detail_by_id, activities_by_id,
                   first_lock_detail, filter_runs, last_fetch>>
    /\ UNCHANGED nonDataVars

\* the entity's update resumes after its activity refresh and runs to its
\* end
EntityResumesWithActivity ==
    /\ \E j \in JobsOf("device_activities", "finished") :
          /\ j.caller = "entity"
          /\ EntityPatches(j.device_id, entity_lock_detail[j.device_id],
                           entity_detail_is_cached[j.device_id])
          /\ jobs' = jobs \ {j}
    /\ last_refresh' = {}
    /\ last_batch' = {}
    /\ last_command' = NoCommand
    /\ last_read' = NoRead
    /\ UNCHANGED <<session, now, advances, api_locks, locks, doorbells,
                   house_ids, doorbell_detail_by_id, activities_by_id,
                   throttle, first_lock_detail, filter_runs, last_fetch>>
    /\ UNCHANGED nonDataVars

\* AugustLock.async_lock / async_unlock: _call_lock_operation hands
\* AugustData.lock / unlock to the executor and is suspended in its await
CallLockOperation ==
    /\ session = "ready"
    /\ Room(jobs)
    /\ \E d \in Range(locks), operation_name \in Operations :
          jobs' = Submit(jobs, operation_name, "command", d, {})
    /\ last_refresh' = {}
    /\ last_batch' = {}
    /\ last_command' = NoCommand
    /\ last_read' = NoRead
    /\ UNCHANGED <<session, now, advances, api_locks, locks, doorbells,
                   house_ids, lock_detail_by_id, doorbell_detail_by_id,
                   activities_by_id, throttle, first_lock_detail, filter_runs,
                   last_fetch, entity_lock_detail, entity_detail_is_cached>>
    /\ UNCHANGED nonDataVars

\* AugustData.lock / unlock on the executor: get_lock_name, and the vendor
\* call inside _call_api_operation_that_requires_bridge, which turns an
\* AugustApiHTTPError into a HomeAssistantError
LockOperation ==
    /\ \E j \in jobs :
          /\ j.caller = "command"
          /\ j.pc = "submitted"
          /\ \E out \in CommandOutcomes(j.device_id, j.method) :
                LET device_name == get_lock_name(j.device_id)
                IN jobs' =
                       (jobs \ {j}) \cup
                       {IF out.raised = "AugustApiHTTPError"
                        THEN IF device_name = None
                             THEN [j EXCEPT !.pc = "finished",
                                            !.raised = "TypeError"]
                             ELSE [j EXCEPT
                                      !.pc = "finished",
                                      !.raised = "HomeAssistantError",
                                      !.message = BridgeErrorMessage(
                                          device_name[1], j.method, out.text)]
                        ELSE [j EXCEPT !.pc = "finished",
                                       !.raised = out.raised,
                                       !.activities = out.activities]}
    /\ last_refresh' = {}
    /\ last_batch' = {}
    /\ last_command' = NoCommand
    /\ last_read' = NoRead
    /\ UNCHANGED <<session, now, advances, api_locks, locks, doorbells,
                   house_ids, lock_detail_by_id, doorbell_detail_by_id,
                   activities_by_id, throttle, first_lock_detail, filter_runs,
                   last_fetch, entity_lock_detail, entity_detail_is_cached>>
    /\ UNCHANGED nonDataVars

\* _call_lock_operation resumes: the job's exception is raised, or each
\* activity it returned is applied to the detail object the entity holds
\* then, which is the one in the cache unless a refresh replaced the
\* mapping
CallLockOperationResumes ==
    /\ \E j \in jobs :
          /\ j.caller = "command"
          /\ j.pc = "finished"
          /\ LET d == j.device_id
                 detail == entity_lock_detail[d]
                 command == [operation_name |-> j.method, device_id |-> d,
                             raised |-> j.raised, message |-> j.message,
                             activities |-> j.activities]
             IN IF j.raised # ""
                THEN /\ last_command' = command
                     /\ UNCHANGED <<entity_lock_detail, lock_detail_by_id>>
                ELSE IF j.activities # <<>> /\ detail = None
                THEN \* update_lock_detail_from_activity(None, activity)
                     /\ last_command' =
                            [command EXCEPT !.raised = "AttributeError"]
                     /\ UNCHANGED <<entity_lock_detail, lock_detail_by_id>>
                ELSE LET patched ==
                             IF detail = None THEN None
                             ELSE Some(UpdateFromActivities(detail[1],
                                                            j.activities))
                     IN /\ last_command' = command
                        /\ entity_lock_detail' =
                               [entity_lock_detail EXCEPT ![d] = patched]
                        /\ lock_detail_by_id' =
                               IF entity_detail_is_cached[d]
                               THEN [lock_detail_by_id EXCEPT ![d] = patched]
                               ELSE lock_detail_by_id
          /\ jobs' = {IF k.caller = "reader" THEN [k EXCEPT !.early = TRUE]
                      ELSE k : k \in jobs \ {j}}
    /\ last_refresh' = {}
    /\ last_batch' = {}
    /\ last_read' = NoRead
    /\ UNCHANGED <<session, now, advances, api_locks, locks, doorbells,
                   house_ids, doorbell_detail_by_id, activities_by_id,
                   throttle, first_lock_detail, filter_runs, last_fetch,
                   entity_detail_is_cached>>
    /\ UNCHANGED nonDataVars

\* the last step was a command on lock d that succeeded and returned
\* activities; it stays on record while a read of d that follows it runs
CommandPatched(d) ==
    /\ last_command.device_id = d
    /\ last_command.raised = ""
    /\ last_command.activities # <<>>

\* self._lock_detail_by_id[device_id] at the end of async_get_lock_detail
ReadLockDetail(d, raised, fetched) ==
    LET error == IF raised # "" THEN raised
                 ELSE IF d \notin DOMAIN lock_detail_by_id THEN "KeyError"
                 ELSE ""
    IN [device_id |-> d, raised |-> error,
        value |-> IF error # "" THEN None ELSE lock_detail_by_id[d],
        fetched |-> fetched]

\* AugustData.async_get_lock_detail, called by any reader of the facade, up
\* to its await: inside the window the throttled refresh returns at once
\* and the detail is read; outside, the refresh takes its timestamp and is
\* handed to the executor
AsyncGetLockDetail ==
    /\ session = "ready"
    /\ \E d \in LockIds :
          LET runs == ThrottleRuns(throttle["locks_detail"],
                                   MIN_TIME_BETWEEN_DETAIL_UPDATES)
          IN /\ last_refresh' = {DetailRequest("lock", runs)}
             /\ IF runs
                THEN /\ Room(jobs)
                     /\ throttle' = [throttle EXCEPT
                                        !["locks_detail"] = Some(now)]
                     /\ jobs' = Submit(jobs, "locks_detail", "reader",
                                       d, {})
                     /\ last_read' = NoRead
                ELSE /\ last_read' = ReadLockDetail(d, "", FALSE)
                     /\ UNCHANGED <<throttle, jobs>>
             /\ last_command' = IF CommandPatched(d) THEN last_command
                                ELSE NoCommand
    /\ last_batch' = {}
    /\ UNCHANGED <<session, now, advances, api_locks, locks, doorbells,
                   house_ids, lock_detail_by_id, doorbell_detail_by_id,
                   activities_by_id, first_lock_detail, filter_runs,
                   last_fetch, entity_lock_detail, entity_detail_is_cached>>
    /\ UNCHANGED nonDataVars

\* the reader resumes after its refresh and reads the detail the facade
\* holds then
AsyncGetLockDetailReturns ==
    /\ \E j \in JobsOf("locks_detail", "finished") :
          /\ j.caller = "reader"
          /\ last_read' = ReadLockDetail(j.device_id, j.raised, TRUE)
          /\ jobs' = jobs \ {j}
          /\ last_command' = IF j.early THEN NoCommand ELSE last_command
    /\ last_refresh' = {}
    /\ last_batch' = {}
    /\ UNCHANGED <<session, now, advances, api_locks, locks, doorbells,
                   house_ids, lock_detail_by_id, doorbell_detail_by_id,
                   activities_by_id, throttle, first_lock_detail,
                   filter_runs, last_fetch, entity_lock_detail,
                   entity_detail_is_cached>>
    /\ UNCHANGED nonDataVars

\* self._doorbell_detail_by_id.get(device_id) at the end of
\* async_get_doorbell_detail
ReadDoorbellDetail(d, raised, fetched) ==
    [device_id |-> d, raised |-> raised,
     value |-> IF raised = "" /\ d \in DOMAIN doorbell_detail_by_id
               THEN doorbell_detail_by_id[d] ELSE None,
     fetched |-> fetched]

\* AugustData.async_get_doorbell_detail up to its await
AsyncGetDoorbellDetail ==
    /\ session = "ready"
    /\ \E d \in DoorbellIds :
          LET runs == ThrottleRuns(throttle["doorbells_detail"],
                                   MIN_TIME_BETWEEN_DETAIL_UPDATES)
          IN /\ last_refresh' = {DetailRequest("doorbell", runs)}
             /\ IF runs
                THEN /\ Room(jobs)
                     /\ throttle' = [throttle EXCEPT
                                        !["doorbells_detail"] = Some(now)]
                     /\ jobs' = Submit(jobs, "doorbells_detail",
                                       "reader", d, {})
                     /\ last_read' = NoRead
                ELSE /\ last_read' = ReadDoorbellDetail(d, "", FALSE)
                     /\ UNCHANGED <<throttle, jobs>>
    /\ last_batch' = {}
    /\ last_command' = NoCommand
    /\ UNCHANGED <<session, now, advances, api_locks, locks, doorbells,
                   house_ids, lock_detail_by_id, doorbell_detail_by_id,
                   activities_by_id, first_lock_detail, filter_runs,
                   last_fetch, entity_lock_detail, entity_detail_is_cached>>
    /\ UNCHANGED nonDataVars

\* _update_doorbells_detail on the executor
UpdateDoorbellsDetail ==
    /\ \E j \in JobsOf("doorbells_detail", "submitted"),
          responses \in DoorbellResponses(doorbells) :
          LET b == update_device_detail(doorbells, responses)
          IN /\ doorbell_detail_by_id' =
                    AssignedDetail(b, doorbell_detail_by_id)
             /\ last_batch' = {Batch("doorbell", doorbells, responses, b)}
             /\ jobs' = Finish(jobs, j, b.raised)
    /\ last_fetch' = [last_fetch EXCEPT !["doorbell"] = Some(now)]
    /\ last_refresh' = {}
    /\ last_read' = NoRead
    /\ last_command' = NoCommand
    /\ UNCHANGED <<session, now, advances, api_locks, locks, doorbells,
                   house_ids, lock_detail_by_id, activities_by_id, throttle,
                   first_lock_detail, filter_runs, entity_lock_detail,
                   entity_detail_is_cached>>
    /\ UNCHANGED nonDataVars

\* the reader resumes after its refresh and reads the detail the facade
\* holds then
AsyncGetDoorbellDetailReturns ==
    /\ \E j \in JobsOf("doorbells_detail", "finished") :
          /\ last_read' = ReadDoorbellDetail(j.device_id, j.raised, TRUE)
          /\ jobs' = jobs \ {j}
    /\ last_refresh' = {}
    /\ last_batch' = {}
    /\ last_command' = NoCommand
    /\ UNCHANGED <<session, now, advances, api_locks, locks, doorbells,
                   house_ids, lock_detail_by_id, doorbell_detail_by_id,
                   activities_by_id, throttle, first_lock_detail,
                   filter_runs, last_fetch, entity_lock_detail,
                   entity_detail_is_cached>>
    /\ UNCHANGED nonDataVars

\* ------------------------------------------------------------------------
\* A reader of the activities (__init__.py, async_get_device_activities)
\* ------------------------------------------------------------------------

\* the longest activity list get_house_activities returns to the reader's
\* refresh
MaxActivityFeed == 2

ReadActivityTypes == {"lock_operation", "door_operation"}

\* the activities of locks: an operation of the lock and one of its door
TypedActivities ==
    {a \in [device_id : LockIds, activity_type : ReadActivityTypes,
            action : {"lock", "dooropen"}] :
        a.activity_type = "door_operation" <=> a.action = "dooropen"}

\* what api.get_house_activities may return for a house of the account
HouseActivityFeeds(house_id) ==
    SeqsUpTo({a \in TypedActivities :
                 /\ DeviceHouse(a.device_id) = house_id
                 /\ a.device_id \in Range(api_locks)},
             MaxActivityFeed)

\* what get_house_activities may return to a refresh, one feed for each
\* house id: lock operations to the refresh of an entity's update, and
\* operations of locks and doors to the refresh of a reader
FeedsOf(caller) ==
    IF caller = "entity"
    THEN {f \in [house_ids -> UNION {DataFeeds(h) : h \in house_ids}] :
             \A h \in house_ids : f[h] \in DataFeeds(h)}
    ELSE {f \in [house_ids ->
                    UNION {HouseActivityFeeds(h) : h \in house_ids}] :
             \A h \in house_ids : f[h] \in HouseActivityFeeds(h)}

\* the filter is applied also when no type is given
GetDeviceActivitiesAlwaysFilters(by_id, device_id, activity_types) ==
    SelectSeq(IF device_id \in DOMAIN by_id THEN by_id[device_id] ELSE <<>>,
              LAMBDA a : a.activity_type \in activity_types)

\* async_get_device_activities after the refresh, for any number of types:
\* self._activities_by_id.get(device_id, []), filtered when types are given
async_get_device_activities(by_id, device_id, activity_types) ==
    LET activities ==
            IF device_id \in DOMAIN by_id THEN by_id[device_id] ELSE <<>>
    IN IF activity_types # {}
       THEN SelectSeq(activities, LAMBDA a : a.activity_type \in activity_types)
       ELSE activities

NoActivitiesQuery == [device_id |-> "", activity_types |-> {},
                      ran |-> FALSE, returned |-> <<>>]

QueryInit == last_activities = NoActivitiesQuery

\* AugustData.async_get_device_activities, called by any reader, up to its
\* await: inside the window the throttled refresh returns at once and the
\* activities are read; outside, the refresh finds a token that needs no
\* refresh, takes its timestamp and is handed to the executor
AsyncGetDeviceActivities ==
    /\ session = "ready"
    /\ \E device_id \in LockIds, activity_types \in SUBSET ReadActivityTypes :
          LET runs == ThrottleRuns(throttle["device_activities"],
                                   MIN_TIME_BETWEEN_ACTIVITY_UPDATES)
          IN IF runs
             THEN /\ ~should_refresh
                  /\ Room(jobs)
                  /\ throttle' = [throttle EXCEPT
                                     !["device_activities"] = Some(now)]
                  /\ jobs' = Submit(jobs, "device_activities", "reader",
                                    device_id, activity_types)
                  /\ last_activities' = NoActivitiesQuery
             ELSE /\ last_activities' =
                         [device_id |-> device_id,
                          activity_types |-> activity_types,
                          ran |-> FALSE,
                          returned |-> async_get_device_activities(
                                           activities_by_id, device_id,
                                           activity_types)]
                  /\ UNCHANGED <<throttle, jobs>>
    /\ last_refresh' = {}
    /\ last_batch' = {}
    /\ last_command' = NoCommand
    /\ last_read' = NoRead
    /\ UNCHANGED <<session, now, advances, api_locks, locks, doorbells,
                   house_ids, lock_detail_by_id, doorbell_detail_by_id,
                   activities_by_id, first_lock_detail, filter_runs,
                   last_fetch, entity_lock_detail, entity_detail_is_cached>>
    /\ UNCHANGED <<streamVars, tokenVars, entryVars, flowVars,
                   sensorVars>>

\* _update_device_activities of the facade on the executor: the feed of
\* each house is fetched and the list of each device in it is assigned.
\* The sessions followed here have one device, so one list is assigned
UpdateFacadeActivities ==
    /\ \E j \in JobsOf("device_activities", "submitted") :
          /\ \E feeds \in FeedsOf(j.caller) :
                activities_by_id' = MergeFeeds(activities_by_id, feeds)
          /\ jobs' = Finish(jobs, j, "")
    /\ last_refresh' = {}
    /\ last_batch' = {}
    /\ last_command' = NoCommand
    /\ last_read' = NoRead
    /\ UNCHANGED <<session, now, advances, api_locks, locks, doorbells,
                   house_ids, lock_detail_by_id, doorbell_detail_by_id,
                   throttle, first_lock_detail, filter_runs, last_fetch,
                   entity_lock_detail, entity_detail_is_cached>>
    /\ UNCHANGED nonDataVars

\* the reader resumes after its refresh and reads the activities the
\* facade holds then
AsyncGetDeviceActivitiesReturns ==
    /\ \E job \in JobsOf("device_activities", "finished") :
          /\ job.caller = "reader"
          /\ last_activities' =
                 [device_id |-> job.device_id,
                  activity_types |-> job.activity_types,
                  ran |-> TRUE,
                  returned |-> async_get_device_activities(
                                   activities_by_id, job.device_id,
                                   job.activity_types)]
          /\ jobs' = jobs \ {job}
    /\ last_refresh' = {}
    /\ last_batch' = {}
    /\ last_command' = NoCommand
    /\ last_read' = NoRead
    /\ UNCHANGED <<session, now, advances, api_locks, locks, doorbells,
                   house_ids, lock_detail_by_id, doorbell_detail_by_id,
                   activities_by_id, throttle, first_lock_detail,
                   filter_runs, last_fetch, entity_lock_detail,
                   entity_detail_is_cached>>
    /\ UNCHANGED <<streamVars, tokenVars, entryVars, flowVars,
                   sensorVars>>

\* ------------------------------------------------------------------------
\* The access token (__init__.py, _async_refresh_access_token_if_needed)
\* ------------------------------------------------------------------------

\* the token runs out at most MaxExpiries times
MaxExpiries == 1

\* the coroutines that may be inside _async_refresh_access_token_if_needed
Callers == {"c1", "c2", "c3"}

\* the force argument _refresh_access_token passes to the authenticator
ForceAlways == TRUE

Force == FALSE

\* async with self._token_refresh_lock: asyncio.Lock.acquire takes the lock
\* without waiting when nobody holds it and nobody is queued for it
LockFreeIgnored(lock) == TRUE

LockFree(lock) == lock = None

\* self._access_token = refreshed_authentication.access_token
AccessTokenAfterRefresh(refreshed) == refreshed

\* the vendor calls of the detail refreshes and of the lock commands
DetailAndCommandPaths == {"lock_detail", "doorbell_detail", "lock", "unlock"}

NoApiCall == [path |-> "", caller |-> "", token |-> 0]

TokenInit ==
    /\ token_valid \in BOOLEAN
    /\ expiries = 0
    /\ token_refresh_lock = None
    /\ token_refresh_waiters = <<>>
    /\ caller_pc = [c \in Callers |-> "idle"]
    /\ caller_result = [c \in Callers |-> ""]
    /\ token_refreshes = 0
    /\ access_token = 0
    /\ last_api_call = NoApiCall

\* a caller enters _async_refresh_access_token_if_needed of the AugustData
\* that was constructed: it returns when the token needs no refresh, takes
\* the lock and hands _refresh_access_token to the executor when the lock is
\* free and has no waiter, and otherwise joins the lock's queue behind the
\* waiters
RefreshIfNeeded ==
    /\ session = "ready"
    /\ \E c \in Callers :
          /\ caller_pc[c] = "idle"
          /\ IF ~should_refresh
             THEN /\ caller_result[c] # "not_needed"
                  /\ caller_result' = [caller_result EXCEPT ![c] = "not_needed"]
                  /\ UNCHANGED <<caller_pc, token_refresh_lock,
                                 token_refresh_waiters>>
             ELSE IF LockFree(token_refresh_lock)
                        /\ token_refresh_waiters = <<>>
             THEN /\ token_refresh_lock' = Some(c)
                  /\ caller_pc' = [caller_pc EXCEPT ![c] = "refreshing"]
                  /\ caller_result' = [caller_result EXCEPT ![c] = ""]
                  /\ UNCHANGED token_refresh_waiters
             ELSE /\ caller_pc' = [caller_pc EXCEPT ![c] = "waiting"]
                  /\ caller_result' = [caller_result EXCEPT ![c] = ""]
                  /\ token_refresh_waiters' =
                         Append(token_refresh_waiters, c)
                  /\ UNCHANGED token_refresh_lock
    /\ UNCHANGED <<token_valid, expiries, token_refreshes, access_token,
                   last_api_call>>
    /\ UNCHANGED nonTokenVars

\* the release of the lock woke the first waiter of the queue: it resumes,
\* takes the lock and hands _refresh_access_token to the executor
AcquireRefreshLock ==
    /\ token_refresh_waiters # <<>>
    /\ LockFree(token_refresh_lock)
    /\ LET c == Head(token_refresh_waiters)
       IN /\ token_refresh_lock' = Some(c)
          /\ caller_pc' = [caller_pc EXCEPT ![c] = "refreshing"]
    /\ token_refresh_waiters' = Tail(token_refresh_waiters)
    /\ UNCHANGED <<token_valid, expiries, caller_result, token_refreshes,
                   access_token, last_api_call>>
    /\ UNCHANGED nonTokenVars

\* the worker runs the first statement of _refresh_access_token:
\* refresh_access_token(force) asks the vendor when force is set or the
\* token should be refreshed, and hands back the token it has otherwise; a
\* RequestException leaves the worker before self._access_token is assigned
RefreshAccessToken ==
    /\ \E c \in Callers, outcome \in RefreshOutcomes :
          /\ caller_pc[c] = "refreshing"
          /\ IF ~(Force \/ should_refresh)
             THEN /\ outcome = "ok"
                  /\ caller_result' = [caller_result EXCEPT ![c] = "unchanged"]
                  /\ caller_pc' = [caller_pc EXCEPT ![c] = "storing"]
                  /\ UNCHANGED <<token_valid, token_refreshes>>
             ELSE IF outcome = "ok"
             THEN /\ token_valid' = TRUE
                  /\ token_refreshes' = token_refreshes + 1
                  /\ caller_result' = [caller_result EXCEPT ![c] = "refreshed"]
                  /\ caller_pc' = [caller_pc EXCEPT ![c] = "storing"]
             ELSE /\ caller_result' = [caller_result EXCEPT ![c] = outcome]
                  /\ caller_pc' = [caller_pc EXCEPT ![c] = "returning"]
                  /\ UNCHANGED <<token_valid, token_refreshes>>
    /\ UNCHANGED <<expiries, token_refresh_lock, token_refresh_waiters,
                   access_token, last_api_call>>
    /\ UNCHANGED nonTokenVars

\* the worker assigns self._access_token the token the authenticator handed
\* back: the holder of the lock is the only caller of the authenticator, so
\* that token is the one the authenticator holds
StoreAccessToken ==
    /\ \E c \in Callers :
          /\ caller_pc[c] = "storing"
          /\ access_token' = AccessTokenAfterRefresh(token_refreshes)
          /\ caller_pc' = [caller_pc EXCEPT ![c] = "returning"]
    /\ UNCHANGED <<token_valid, expiries, token_refresh_lock,
                   token_refresh_waiters, caller_result, token_refreshes,
                   last_api_call>>
    /\ UNCHANGED nonTokenVars

\* the executor job is done: the coroutine leaves 'async with' and the lock
\* is released
ReleaseRefreshLock ==
    /\ \E c \in Callers :
          /\ caller_pc[c] = "returning"
          /\ caller_pc' = [caller_pc EXCEPT ![c] = "idle"]
    /\ token_refresh_lock' = None
    /\ UNCHANGED <<token_valid, expiries, token_refresh_waiters, caller_result,
                   token_refreshes, access_token, last_api_call>>
    /\ UNCHANGED nonTokenVars

\* time passes and the token comes close to its end
ExpireToken ==
    /\ token_valid
    /\ expiries < MaxExpiries
    /\ token_valid' = FALSE
    /\ expiries' = expiries + 1
    /\ UNCHANGED <<token_refresh_lock, token_refresh_waiters, caller_pc,
                   caller_result, token_refreshes, access_token, last_api_call>>
    /\ UNCHANGED nonTokenVars

\* the rest of _async_update_device_activities: the refresh returned and
\* _update_device_activities calls get_house_activities with
\* self._access_token for every house of self.house_ids, none when there is
\* no house, and assigns each device of a feed its list in
\* self._activities_by_id; an exception of the refresh leaves the method
\* before.  The feeds are those of an entity's refresh
UpdateDeviceActivities ==
    /\ \E c \in Callers :
          /\ caller_pc[c] = "idle"
          /\ caller_result[c] \in {"not_needed", "refreshed", "unchanged"}
          /\ caller_result' = [caller_result EXCEPT ![c] = "fetched"]
          /\ last_api_call' =
                 IF house_ids = {} THEN last_api_call
                 ELSE [path |-> "activities", caller |-> c,
                       token |-> access_token]
    /\ \E feeds \in FeedsOf("entity") :
          activities_by_id' = MergeFeeds(activities_by_id, feeds)
    /\ UNCHANGED <<token_valid, expiries, token_refresh_lock,
                   token_refresh_waiters, caller_pc, token_refreshes,
                   access_token>>
    /\ UNCHANGED <<session, now, advances, api_locks, locks, doorbells,
                   house_ids, lock_detail_by_id, doorbell_detail_by_id,
                   throttle, first_lock_detail, filter_runs, last_fetch,
                   jobs, entity_lock_detail, entity_detail_is_cached,
                   last_refresh, last_batch, last_command, last_read>>
    /\ UNCHANGED <<streamVars, entryVars, otherVars>>

\* _update_device_detail, lock and unlock: the vendor is called with
\* self._access_token and nothing looks at the token's age
CallApiWithToken ==
    /\ \E path \in DetailAndCommandPaths :
          last_api_call' = [path |-> path, caller |-> "",
                            token |-> access_token]
    /\ last_api_call' # last_api_call
    /\ UNCHANGED <<token_valid, expiries, token_refresh_lock,
                   token_refresh_waiters, caller_pc, caller_result,
                   token_refreshes, access_token>>
    /\ UNCHANGED nonTokenVars

TokenNext ==
    \/ Construct
    \/ RefreshIfNeeded
    \/ AcquireRefreshLock
    \/ RefreshAccessToken
    \/ StoreAccessToken
    \/ ReleaseRefreshLock
    \/ ExpireToken
    \/ UpdateDeviceActivities
    \/ CallApiWithToken

\* ------------------------------------------------------------------------
\* The config entry (__init__.py, async_setup_entry and async_unload_entry)
\* ------------------------------------------------------------------------

\* authenticate is started at most MaxSetups times
MaxSetups == 2

\* the async_unload_entry calls that are under way together
MaxUnloadsInFlight == 1

PLATFORMS == {"camera", "binary_sensor", "sensor", "lock"}

\* what authenticator.authenticate does: it raises a RequestException or
\* returns an Authentication in one of the states
AuthOutcomes ==
    {"RequestException", "BAD_PASSWORD", "REQUIRES_VALIDATION",
     "REQUIRES_AUTHENTICATION", "AUTHENTICATED"}

\* what authenticator.validate_verification_code returns
ValidationResults == {"INVALID_VERIFICATION_CODE", "VALIDATED"}

NoValidation == [result |-> "", returned |-> "", errors_notified |-> FALSE]

NoUnload == [returned |-> "", connection |-> 0]

\* the coroutines of async_setup_entry and of the verification code
\* callback that can be in flight together
Runs == {"r1", "r2"}

\* the AugustConnection objects: async_setup_entry makes one with each call
Connections == 1..MaxSetups

EntryInit ==
    /\ entry_state = "not_loaded"
    /\ setups = 0
    /\ last_auth = ""
    /\ setup_result = ""
    /\ hass_data = None
    /\ forward_tasks = [p \in PLATFORMS |-> 0]
    /\ forwarded = <<>>
    /\ configuring = FALSE
    /\ open_requests = {}
    /\ codes_sent = 0
    /\ config_requests = 0
    /\ requests_done = 0
    /\ run_pc = [run \in Runs |-> "idle"]
    /\ run_conn = [run \in Runs |-> 0]
    /\ run_origin = [run \in Runs |-> ""]
    /\ run_data = [run \in Runs |-> None]
    /\ last_validation = NoValidation
    /\ api_http_sessions = {}
    /\ unloads = {}
    /\ last_unload = NoUnload

\* something refers to connection k: a coroutine that was handed it, the
\* callback of a request the configurator shows, the AugustData in hass.data
\* or an entity made of an AugustData
Referenced(k) ==
    \/ \E run \in Runs : run_pc[run] # "idle" /\ run_conn[run] = k
    \/ \E q \in open_requests : q.conn = k
    \/ hass_data # None /\ hass_data[1].august_connection = k
    \/ \E p \in DOMAIN forwarded : forwarded[p] = k

\* AugustConnection.close_http_session of connection k: its Session is
\* closed, whoever refers to the connection, and a closed Session stays
\* closed
close_http_session(sessions, k) == sessions \ {k}

\* close_http_session of every connection of a set
RECURSIVE CloseHttpSessions(_, _)
CloseHttpSessions(sessions, connections) ==
    IF connections = {} THEN sessions
    ELSE LET k == CHOOSE c \in connections : TRUE
         IN CloseHttpSessions(close_http_session(sessions, k),
                              connections \ {k})

\* AugustConnection.__del__: the interpreter calls it when the last
\* reference to a connection goes, at the end of the step that drops it,
\* and it closes the Session.  Nothing else in the integration calls
\* close_http_session
__del__(opened) ==
    api_http_sessions' =
        CloseHttpSessions(api_http_sessions \cup opened,
                          {k \in Connections : ~Referenced(k)'})

\* a connection object that does not exist yet
NewConnection == CHOOSE k \in Connections : ~Referenced(k)

\* a coroutine that is not under way
IdleRun == CHOOSE run \in Runs : run_pc[run] = "idle"

\* the calls of authenticate that were made
SetupsBegun ==
    setups + Cardinality({run \in Runs : run_pc[run] = "authenticating"})

\* the request _CONFIGURING holds for the entry: the one made last
Registered ==
    CHOOSE q \in open_requests : \A o \in open_requests : o.id <= q.id

\* a coroutine starts with connection k
StartRun(run, origin, k, pc) ==
    /\ run_pc' = [run_pc EXCEPT ![run] = pc]
    /\ run_conn' = [run_conn EXCEPT ![run] = k]
    /\ run_origin' = [run_origin EXCEPT ![run] = origin]
    /\ UNCHANGED run_data

\* a coroutine goes on to its next await
StepTo(run, pc) ==
    /\ run_pc' = [run_pc EXCEPT ![run] = pc]
    /\ last_validation' = NoValidation
    /\ UNCHANGED <<run_conn, run_origin, run_data, entry_state>>
    /\ setup_result' = ""

\* async_setup_august returns or raises.  The core keeps the entry loaded
\* when async_setup_entry returned True and in error otherwise; the callback
\* returns what async_setup_august returned
EndRun(run, result) ==
    /\ run_pc' = [run_pc EXCEPT ![run] = "idle"]
    /\ run_conn' = [run_conn EXCEPT ![run] = 0]
    /\ run_origin' = [run_origin EXCEPT ![run] = ""]
    /\ run_data' = [run_data EXCEPT ![run] = None]
    /\ setup_result' = result
    /\ entry_state' = IF run_origin[run] # "entry" THEN entry_state
                      ELSE IF result = "True" THEN "loaded"
                      ELSE "setup_error"
    /\ last_validation' =
           IF run_origin[run] = "callback"
           THEN [result |-> "VALIDATED", returned |-> result,
                 errors_notified |-> FALSE]
           ELSE NoValidation

\* the end of async_request_configuration and of the async_setup_august
\* that awaited it: the configurator's new request is stored over whatever
\* _CONFIGURING holds for the entry, and the setup returns False
RegisterRequest(run) ==
    /\ configuring' = TRUE
    /\ config_requests' = config_requests + 1
    /\ open_requests' = open_requests \cup {[id |-> config_requests + 1,
                                   conn |-> run_conn[run]]}
    /\ EndRun(run, "False")

\* async_request_configuration up to its await: when no request is
\* registered for the entry, send_verification_code is handed to the
\* executor and the coroutine is suspended; when one is registered, there is
\* no await and the coroutine goes on to register its request
async_request_configuration(run) ==
    IF configuring
    THEN /\ RegisterRequest(run)
         /\ UNCHANGED <<codes_sent, requests_done>>
    ELSE /\ StepTo(run, "sending")
         /\ UNCHANGED requestVars

\* every outcome but the three named failures goes on to the construction
SetupAugustAnyState(run, outcome) ==
    /\ setups' = setups + 1
    /\ last_auth' = outcome
    /\ IF outcome = "REQUIRES_VALIDATION"
       THEN async_request_configuration(run)
       ELSE IF outcome \in {"RequestException", "BAD_PASSWORD"}
       THEN /\ EndRun(run, "False")
            /\ UNCHANGED requestVars
       ELSE /\ configuring' = FALSE
            /\ requests_done' =
                   IF configuring THEN requests_done + 1 ELSE requests_done
            /\ open_requests' =
                   IF configuring THEN open_requests \ {Registered}
                   ELSE open_requests
            /\ StepTo(run, "constructing")
            /\ UNCHANGED <<codes_sent, config_requests>>
    /\ UNCHANGED <<hass_data, forward_tasks, forwarded>>

\* async_setup_august from the return of authenticate to its next await or
\* its return: a RequestException and the states that are not AUTHENTICATED
\* return False, REQUIRES_VALIDATION after async_request_configuration;
\* AUTHENTICATED closes the registered request and hands AugustData to the
\* executor
async_setup_august(run, outcome) ==
    /\ setups' = setups + 1
    /\ last_auth' = outcome
    /\ IF outcome = "REQUIRES_VALIDATION"
       THEN async_request_configuration(run)
       ELSE IF outcome # "AUTHENTICATED"
       THEN /\ EndRun(run, "False")
            /\ UNCHANGED requestVars
       ELSE /\ configuring' = FALSE
            /\ requests_done' =
                   IF configuring THEN requests_done + 1 ELSE requests_done
            /\ open_requests' =
                   IF configuring THEN open_requests \ {Registered}
                   ELSE open_requests
            /\ StepTo(run, "constructing")
            /\ UNCHANGED <<codes_sent, config_requests>>
    /\ UNCHANGED <<hass_data, forward_tasks, forwarded>>

\* async_setup_entry up to the await of authenticate: a connection with a
\* new HTTP session is made and authenticate is handed to the executor.  The
\* core calls it for an entry that is not loaded or whose setup failed (a
\* reload); the entry stays not loaded while a setup is suspended, so a
\* second setup of the entry can start meanwhile
AsyncSetupEntry ==
    /\ entry_state \in {"not_loaded", "setup_error"}
    /\ SetupsBegun < MaxSetups
    /\ \E run \in Runs : run_pc[run] = "idle"
    /\ StartRun(IdleRun, "entry", NewConnection, "authenticating")
    /\ entry_state' = "not_loaded"
    /\ last_validation' = NoValidation
    /\ last_unload' = NoUnload
    /\ UNCHANGED <<setups, hass_data, forward_tasks, forwarded, requestVars, unloads>>
    /\ last_auth' = ""
    /\ setup_result' = ""
    /\ __del__({NewConnection})
    /\ UNCHANGED nonEntryVars

\* a coroutine resumes with what authenticate returned or raised
AuthenticateReturns ==
    /\ \E run \in Runs, outcome \in AuthOutcomes :
          /\ run_pc[run] = "authenticating"
          /\ async_setup_august(run, outcome)
    /\ last_unload' = NoUnload
    /\ UNCHANGED unloads
    /\ __del__({})
    /\ UNCHANGED nonEntryVars

\* the executor runs authenticator.send_verification_code for a suspended
\* coroutine: the code is sent, or the call raises a RequestException,
\* which leaves async_request_configuration and async_setup_august
SendVerificationCode ==
    /\ \E run \in Runs, outcome \in {"sent", "RequestException"} :
          /\ run_pc[run] = "sending"
          /\ IF outcome = "sent"
             THEN /\ StepTo(run, "sent")
                  /\ codes_sent' = codes_sent + 1
             ELSE /\ EndRun(run, "raised")
                  /\ UNCHANGED codes_sent
    /\ last_unload' = NoUnload
    /\ UNCHANGED <<setups, hass_data, forward_tasks, forwarded, configuring,
                   open_requests, config_requests, requests_done, unloads>>
    /\ last_auth' = ""
    /\ __del__({})
    /\ UNCHANGED nonEntryVars

\* a coroutine resumes after its code was sent: the rest of
\* async_request_configuration, and async_setup_august returns False
ResumeRequestConfiguration ==
    /\ \E run \in Runs :
          /\ run_pc[run] = "sent"
          /\ RegisterRequest(run)
    /\ last_unload' = NoUnload
    /\ UNCHANGED <<setups, hass_data, forward_tasks, forwarded, codes_sent,
                   requests_done, unloads>>
    /\ last_auth' = ""
    /\ __del__({})
    /\ UNCHANGED nonEntryVars

\* async_august_configuration_validation_callback up to its await: the user
\* submitted a code to a request the configurator shows, and
\* validate_verification_code of the request's connection is handed to the
\* executor.  The request is the registered one or an earlier one of the
\* entry: async_request_configuration overwrites _CONFIGURING[entry_id] and
\* only the registered request is ever done
ValidateCode ==
    /\ \E run \in Runs : run_pc[run] = "idle"
    /\ \E q \in open_requests :
          StartRun(IdleRun, "callback", q.conn, "validating")
    /\ last_validation' = NoValidation
    /\ last_unload' = NoUnload
    /\ UNCHANGED <<entry_state, setups, hass_data, forward_tasks, forwarded,
                   requestVars, api_http_sessions, unloads>>
    /\ last_auth' = ""
    /\ setup_result' = ""
    /\ UNCHANGED nonEntryVars

\* the callback resumes with what validate_verification_code returned: an
\* invalid code is reported on _CONFIGURING[entry_id], which raises KeyError
\* when the entry is not there, and the callback returns False; a valid code
\* goes into async_setup_august, which hands authenticate to the executor
ValidateCodeReturns ==
    /\ \E run \in Runs, result \in ValidationResults :
          /\ run_pc[run] = "validating"
          /\ IF result = "VALIDATED"
             THEN /\ SetupsBegun < MaxSetups
                  /\ StepTo(run, "authenticating")
             ELSE /\ run_pc' = [run_pc EXCEPT ![run] = "idle"]
                  /\ run_conn' = [run_conn EXCEPT ![run] = 0]
                  /\ run_origin' = [run_origin EXCEPT ![run] = ""]
                  /\ last_validation' =
                         [result |-> result,
                          returned |-> IF configuring THEN "False"
                                       ELSE "KeyError",
                          errors_notified |-> configuring]
                  /\ UNCHANGED <<run_data, entry_state>>
                  /\ setup_result' = ""
    /\ last_unload' = NoUnload
    /\ UNCHANGED <<setups, hass_data, forward_tasks, forwarded, requestVars, unloads>>
    /\ last_auth' = ""
    /\ __del__({})
    /\ UNCHANGED nonEntryVars

\* the executor runs AugustData.__init__ for a suspended coroutine, with
\* what the vendor answers.  The session the facade's variables follow is
\* the AugustData that was built last
ConstructAugustData ==
    /\ \E run \in Runs :
          /\ run_pc[run] = "constructing"
          /\ \E lock_responses \in LockResponses(api_locks),
                doorbell_responses \in DoorbellResponses(doorbells) :
             \E data \in {AugustData(lock_responses, doorbell_responses)} :
                /\ run_data' = [run_data EXCEPT ![run] = Some(data)]
                /\ FollowData(data)
          /\ run_pc' = [run_pc EXCEPT ![run] = "constructed"]
    /\ last_validation' = NoValidation
    /\ last_unload' = NoUnload
    /\ UNCHANGED <<entry_state, setups, hass_data, forward_tasks, forwarded,
                   requestVars, run_conn, run_origin, api_http_sessions, unloads>>
    /\ last_auth' = ""
    /\ setup_result' = ""
    /\ UNCHANGED <<streamVars, tokenVars, otherVars>>

\* a task is made for every platform whatever the constructor did
ForwardedPlatformsRegardless(constructed) == PLATFORMS

\* the loop over PLATFORMS at the end of async_setup_august, which an
\* exception of the constructor never reaches
ForwardedPlatforms(constructed) == IF constructed THEN PLATFORMS ELSE {}

\* a coroutine resumes with what the constructor did: the AugustData is
\* stored in hass.data, over the one that may be there, a task that forwards
\* the setup is made for every platform, and async_setup_august returns
\* True; an exception of the constructor leaves async_setup_august
ConstructSession ==
    /\ \E run \in Runs :
          /\ run_pc[run] = "constructed"
          /\ LET data == run_data[run][1]
                 constructed == data.session = "ready"
             IN /\ forward_tasks' =
                       [p \in PLATFORMS |->
                           IF p \in ForwardedPlatforms(constructed)
                           THEN forward_tasks[p] + 1 ELSE forward_tasks[p]]
                /\ IF constructed
                   THEN /\ hass_data' =
                              Some([august_connection |-> run_conn[run],
                                    data |-> data])
                        /\ EndRun(run, "True")
                   ELSE /\ EndRun(run, "raised")
                        /\ UNCHANGED hass_data
    /\ last_unload' = NoUnload
    /\ UNCHANGED <<setups, forwarded, requestVars, unloads>>
    /\ last_auth' = ""
    /\ __del__({})
    /\ UNCHANGED nonEntryVars

\* async_setup_entry of platform p makes entities that hold the AugustData:
\* a lock entity of every lock (lock.py), a camera of every doorbell
\* (camera.py); sensor.py and binary_sensor.py subscript the AugustData,
\* which raises TypeError before an entity is made
PlatformHasEntities(p, data) ==
    CASE p = "lock" -> data.locks # <<>>
      [] p = "camera" -> doorbells # <<>>
      [] OTHER -> FALSE

\* a task of async_setup_august runs: the core sets up platform p of the
\* entry, whose async_setup_entry reads hass.data[DOMAIN][entry_id] (a
\* KeyError when the entry was popped meanwhile); a platform that is set up
\* is not set up again
ForwardEntrySetup ==
    /\ \E p \in PLATFORMS :
          /\ forward_tasks[p] > 0
          /\ forward_tasks' = [forward_tasks EXCEPT ![p] = @ - 1]
          /\ forwarded' =
                 IF p \in DOMAIN forwarded THEN forwarded
                 ELSE forwarded @@
                      (p :> IF /\ hass_data # None
                               /\ PlatformHasEntities(p, hass_data[1].data)
                            THEN hass_data[1].august_connection ELSE 0)
    /\ last_validation' = NoValidation
    /\ last_unload' = NoUnload
    /\ UNCHANGED <<entry_state, setups, hass_data, requestVars, runVars, unloads>>
    /\ last_auth' = ""
    /\ setup_result' = ""
    /\ __del__({})
    /\ UNCHANGED nonEntryVars

\* one platform that unloads is enough
UnloadOkIfAny(results) == \E p \in PLATFORMS : results[p]

\* all(await asyncio.gather(...)) over what the platforms return
UnloadOk(results) == \A p \in PLATFORMS : results[p]

\* an unload that no other unload under way has the id of; the platforms
\* have not yet answered
NewUnload ==
    [id |-> CHOOSE i \in 1..(Cardinality(unloads) + 1) :
                \A u \in unloads : u.id # i,
     results |-> None]

\* async_unload_entry up to its await: every platform is asked to unload.
\* The core calls it for an entry that is loaded
UnloadEntry ==
    /\ entry_state = "loaded"
    /\ Cardinality(unloads) < MaxUnloadsInFlight
    /\ unloads' = unloads \cup {NewUnload}
    /\ last_validation' = NoValidation
    /\ last_unload' = NoUnload
    /\ UNCHANGED <<entry_state, setups, hass_data, forward_tasks, forwarded,
                   requestVars, runVars, api_http_sessions>>
    /\ last_auth' = ""
    /\ setup_result' = ""
    /\ UNCHANGED nonEntryVars

\* the async_forward_entry_unload calls under asyncio.gather return, with
\* what each platform answers: a platform that unloaded has removed its
\* entities
ForwardEntryUnload ==
    /\ \E u \in unloads, results \in [PLATFORMS -> BOOLEAN] :
          /\ u.results = None
          /\ unloads' = (unloads \ {u}) \cup
                        {[u EXCEPT !.results = Some(results)]}
          /\ forwarded' =
                 [p \in {o \in DOMAIN forwarded : ~results[o]} |->
                     forwarded[p]]
    /\ last_validation' = NoValidation
    /\ last_unload' = NoUnload
    /\ UNCHANGED <<entry_state, setups, hass_data, forward_tasks, requestVars,
                   runVars>>
    /\ last_auth' = ""
    /\ setup_result' = ""
    /\ __del__({})
    /\ UNCHANGED nonEntryVars

\* async_unload_entry resumes with what the platforms returned: the
\* AugustData is popped when all of them unloaded, a KeyError when it is
\* not there.  Nothing here closes the HTTP session or stops a timer; the
\* session is closed by AugustConnection.__del__, when nothing refers to the
\* connection any more.  The core keeps the entry not loaded after True,
\* and failed to unload after False or an exception
UnloadEntryResumes ==
    /\ \E u \in unloads :
          /\ u.results # None
          /\ unloads' = unloads \ {u}
          /\ LET unload_ok == UnloadOk(u.results[1])
             IN /\ hass_data' = IF unload_ok THEN None ELSE hass_data
                /\ last_unload' =
                       [returned |-> IF ~unload_ok THEN "False"
                                     ELSE IF hass_data = None THEN "KeyError"
                                     ELSE "True",
                        connection |->
                            IF unload_ok /\ hass_data # None
                            THEN hass_data[1].august_connection ELSE 0]
                /\ entry_state' =
                       IF unload_ok /\ hass_data # None THEN "not_loaded"
                       ELSE "failed_unload"
    /\ last_validation' = NoValidation
    /\ UNCHANGED <<setups, forward_tasks, forwarded, requestVars, runVars>>
    /\ last_auth' = ""
    /\ setup_result' = ""
    /\ __del__({})
    /\ UNCHANGED nonEntryVars

EntryNext ==
    \/ AsyncSetupEntry
    \/ AuthenticateReturns
    \/ SendVerificationCode
    \/ ResumeRequestConfiguration
    \/ ValidateCode
    \/ ValidateCodeReturns
    \/ ConstructAugustData
    \/ ConstructSession
    \/ ForwardEntrySetup
    \/ UnloadEntry
    \/ ForwardEntryUnload
    \/ UnloadEntryResumes


\* ------------------------------------------------------------------------
\* The doorbell binary sensor (binary_sensor.py, AugustDoorbellBinarySensor)
\* ------------------------------------------------------------------------

TIME_TO_DECLARE_DETECTION == 60

\* the clock stops after every listener a sensor can schedule has come due
SensorHorizon == 2 * TIME_TO_DECLARE_DETECTION

\* detail.device_id of the sensor's doorbell
SensorDeviceId == "D1"

\* the tables the stream of the sensor's data object may hold: none of the
\* doorbell's activities, or the latest of some of its types
SensorTables ==
    {<<>>} \cup
    {(SensorDeviceId :>
         [t \in types |->
             [device_id |-> SensorDeviceId, activity_type |-> t,
              activity_start_time |-> 1, operated_by |-> "Alice"]]) :
        types \in SUBSET {"doorbell_motion", "doorbell_ding"}}

\* SENSOR_TYPES_DOORBELL[sensor_type][SENSOR_DEVICE_CLASS]
DeviceClass(type) ==
    CASE type = "doorbell_ding" -> "occupancy"
      [] type = "doorbell_motion" -> "motion"
      [] OTHER -> "connectivity"

\* the activity types _retrieve_motion_state and _retrieve_ding_state ask
\* the stream for
RetrievedTypes(type) ==
    IF type = "doorbell_motion" THEN <<"doorbell_motion", "doorbell_ding">>
    ELSE <<"doorbell_ding">>

\* _activity_time_based_state: what it raises and what it returns.  An
\* exception of get_latest_device_activity goes through; what the call
\* returns is a list, which is not None and has no activity_start_time
activity_time_based_state(table, device_id, activity_types) ==
    LET latest == get_latest_device_activity(table, device_id, activity_types)
    IN IF latest.raised # ""
       THEN [raised |-> latest.raised, state |-> None]
       ELSE IF latest.type # "NoneType"
       THEN [raised |-> "AttributeError", state |-> None]
       ELSE [raised |-> "", state |-> None]

\* SENSOR_TYPES_DOORBELL[sensor_type][SENSOR_STATE_PROVIDER](data, detail)
StateProvider(type, table, device_id, online) ==
    IF type = "doorbell_online"
    THEN [raised |-> "", state |-> Some(online)]
    ELSE activity_time_based_state(table, device_id, RetrievedTypes(type))

\* _cancel_any_pending_updates: the listener the sensor holds is removed
cancel_any_pending_updates(listener, timers) ==
    IF listener # None
    THEN {timer \in timers : timer.id # listener[1]}
    ELSE timers

\* the handle of a new listener
NewTimerId(timers) ==
    CHOOSE i \in 1..(Cardinality(timers) + 1) :
        /\ \A timer \in timers : timer.id # i
        /\ \A j \in 1..(i - 1) : \E timer \in timers : timer.id = j

\* if self._state and self.device_class != DEVICE_CLASS_CONNECTIVITY
ShouldSchedule(state, device_class) ==
    state = Some(TRUE) /\ device_class # "connectivity"

\* _update_from_data: the listener is cancelled and self._state is set to
\* None before the state provider is called; an exception of the provider
\* leaves the method there
update_from_data(listener, timers, type, table, t, online) ==
    LET remaining == cancel_any_pending_updates(listener, timers)
        provided == StateProvider(type, table, SensorDeviceId, online)
        id == NewTimerId(remaining)
    IN IF provided.raised # ""
       THEN [raised |-> provided.raised, state |-> None, listener |-> None,
             timers |-> remaining]
       ELSE IF ShouldSchedule(provided.state, DeviceClass(type))
       THEN \* _schedule_update_to_recheck_turn_off_sensor
            [raised |-> "", state |-> provided.state,
             listener |-> Some(id),
             timers |-> remaining \cup
                        {[id |-> id, due |-> t + TIME_TO_DECLARE_DETECTION]}]
       ELSE [raised |-> "", state |-> provided.state, listener |-> None,
             timers |-> remaining]

\* the last statement of _scheduled_update
ListenerAfterScheduledUpdate(listener) == None

SensorIdle ==
    /\ sensor_type = ""
    /\ sensor_now = 0
    /\ sensor_state = None
    /\ sensor_raised = ""
    /\ check_for_off_update_listener = None
    /\ pending_timers = {}
    /\ last_fired = FALSE

\* AugustDoorbellBinarySensor.__init__, for one of the three sensor types
SensorInit ==
    /\ sensor_type \in {"doorbell_ding", "doorbell_motion", "doorbell_online"}
    /\ sensor_now = 0
    /\ sensor_state = None
    /\ sensor_raised = ""
    /\ check_for_off_update_listener = None
    /\ pending_timers = {}
    /\ last_fired = FALSE

\* the entity is told to update and runs _update_from_data
UpdateFromData ==
    /\ \E online \in BOOLEAN :
          LET u == update_from_data(check_for_off_update_listener,
                                    pending_timers, sensor_type,
                                    latest_activities_by_id_type,
                                    sensor_now, online)
          IN /\ sensor_state' = u.state
             /\ sensor_raised' = u.raised
             /\ check_for_off_update_listener' = u.listener
             /\ pending_timers' = u.timers
    /\ last_fired' = FALSE
    /\ UNCHANGED <<sensor_type, sensor_now>>
    /\ UNCHANGED <<streamVars, dataVars, tokenVars, entryVars, flowVars,
                   queryVars>>

\* a listener has come due: _scheduled_update runs _update_from_data and
\* then, unless that raised, clears the sensor's listener
ScheduledUpdate ==
    /\ \E timer \in pending_timers, online \in BOOLEAN :
          /\ timer.due <= sensor_now
          /\ LET u == update_from_data(check_for_off_update_listener,
                                       pending_timers \ {timer}, sensor_type,
                                       latest_activities_by_id_type,
                                       sensor_now, online)
             IN /\ sensor_state' = u.state
                /\ sensor_raised' = u.raised
                /\ check_for_off_update_listener' =
                       IF u.raised # "" THEN u.listener
                       ELSE ListenerAfterScheduledUpdate(u.listener)
                /\ pending_timers' = u.timers
    /\ last_fired' = TRUE
    /\ UNCHANGED <<sensor_type, sensor_now>>
    /\ UNCHANGED <<streamVars, dataVars, tokenVars, entryVars, flowVars,
                   queryVars>>

\* time passes
AdvanceSensorClock ==
    /\ sensor_now < SensorHorizon
    /\ sensor_now' = sensor_now + TIME_TO_DECLARE_DETECTION
    /\ last_fired' = FALSE
    /\ UNCHANGED <<sensor_type, sensor_state, sensor_raised,
                   check_for_off_update_listener, pending_timers>>
    /\ UNCHANGED <<streamVars, dataVars, tokenVars, entryVars, flowVars,
                   queryVars>>

SensorNext ==
    \/ UpdateFromData
    \/ ScheduledUpdate
    \/ AdvanceSensorClock

\* ------------------------------------------------------------------------
\* The config flow (config_flow.py, AugustConfigFlow)
\*
\* The flow manager runs one AugustConfigFlow object for each flow.  A step
\* is a coroutine; async_step_user suspends in validate_input, which runs
\* authenticate on the executor, and steps of other flows run meanwhile.
\* ------------------------------------------------------------------------

FlowIds == {1, 2}

\* user_input[CONF_USERNAME]
Usernames == {"u1", "u2"}

\* user_input of the validation step: {"code": ...}
Codes == {"", "123456"}

NoFlowResult == [type |-> "", detail |-> "", auth |-> "", code_sent |-> FALSE]

FlowIdle ==
    /\ flow_pc = [f \in FlowIds |-> "none"]
    /\ flow_user_input = [f \in FlowIds |-> None]
    /\ flow_user_config = [f \in FlowIds |-> None]
    /\ flow_result = [f \in FlowIds |-> NoFlowResult]
    /\ config_entries = {}

\* _username_in_configuration_exists
username_in_configuration_exists(username) ==
    \E entry \in config_entries : entry.username = username

\* validate_input, from the return of authenticate: the exception it
\* raises, "" when it returns the info of the entry, and whether it has
\* sent a verification code.  On BAD_PASSWORD it calls
\* authenticator.send_verification_code and raises InvalidAuth when the
\* call returns; an exception of the call leaves validate_input as it is
validate_input(outcome, send_raises) ==
    IF outcome = "RequestException"
    THEN [raised |-> "CannotConnect", code_sent |-> FALSE]
    ELSE IF outcome = "BAD_PASSWORD"
    THEN [raised |-> IF send_raises THEN "RequestException"
                     ELSE "InvalidAuth",
          code_sent |-> ~send_raises]
    ELSE IF outcome = "REQUIRES_VALIDATION"
    THEN [raised |-> "RequireValidation", code_sent |-> FALSE]
    ELSE [raised |-> "", code_sent |-> FALSE]

\* async_step_user(user_input) up to the await of validate_input
StepUserBegins(f, username) ==
    IF username_in_configuration_exists(username)
    THEN /\ flow_pc' = [flow_pc EXCEPT ![f] = "done"]
         /\ flow_result' = [flow_result EXCEPT ![f] =
                [type |-> "abort", detail |-> "already_configured",
                 auth |-> "", code_sent |-> FALSE]]
         /\ UNCHANGED flow_user_input
    ELSE /\ flow_pc' = [flow_pc EXCEPT ![f] = "validate_input"]
         /\ flow_user_input' = [flow_user_input EXCEPT ![f] = Some(username)]
         /\ flow_result' = [flow_result EXCEPT ![f] = NoFlowResult]

\* async_step_user(None): the flow a user starts shows the form
StartUserFlow(f) ==
    /\ flow_pc[f] = "none"
    /\ flow_pc' = [flow_pc EXCEPT ![f] = "user"]
    /\ flow_result' = [flow_result EXCEPT ![f] =
           [type |-> "form", detail |-> "user", auth |-> "",
            code_sent |-> FALSE]]
    /\ UNCHANGED <<flow_user_input, flow_user_config, config_entries>>
    /\ UNCHANGED <<streamVars, dataVars, tokenVars, entryVars, queryVars, sensorVars>>

\* async_step_import(user_input): the flow async_setup starts
StartImportFlow(f) ==
    /\ flow_pc[f] = "none"
    /\ \E username \in Usernames : StepUserBegins(f, username)
    /\ UNCHANGED <<flow_user_config, config_entries>>
    /\ UNCHANGED <<streamVars, dataVars, tokenVars, entryVars, queryVars, sensorVars>>

\* async_step_user(user_input): the user submits the form
SubmitUserInput(f) ==
    /\ flow_pc[f] = "user"
    /\ \E username \in Usernames : StepUserBegins(f, username)
    /\ UNCHANGED <<flow_user_config, config_entries>>
    /\ UNCHANGED <<streamVars, dataVars, tokenVars, entryVars, queryVars, sensorVars>>

\* the rest of async_step_user, once authenticate has returned or raised:
\* the rest of validate_input, async_set_unique_id and the except clauses.
\* vendor_raises says whether send_verification_code raises, when
\* validate_input calls it, and whether async_set_unique_id raises, as it
\* does when another flow in progress has the unique id.  The flow manager
\* adds the entry that is created and removes an older entry with the same
\* unique id
ValidateInputReturns(f) ==
    /\ flow_pc[f] = "validate_input"
    /\ \E outcome \in AuthOutcomes, vendor_raises \in BOOLEAN :
          LET info == validate_input(outcome, vendor_raises)
              raised == IF info.raised = "" /\ vendor_raises
                        THEN "AbortFlow" ELSE info.raised
              username == flow_user_input[f][1]
          IN IF raised = "RequireValidation"
             THEN \* self.user_config = user_input; async_step_validation()
                  /\ flow_user_config' =
                         [flow_user_config EXCEPT ![f] = flow_user_input[f]]
                  /\ flow_pc' = [flow_pc EXCEPT ![f] = "validation"]
                  /\ flow_result' = [flow_result EXCEPT ![f] =
                         [type |-> "form", detail |-> "validation",
                          auth |-> outcome, code_sent |-> info.code_sent]]
                  /\ UNCHANGED config_entries
             ELSE IF raised # ""
             THEN /\ flow_pc' = [flow_pc EXCEPT ![f] = "user"]
                  /\ flow_result' = [flow_result EXCEPT ![f] =
                         [type |-> "form",
                          detail |-> IF raised = "CannotConnect"
                                     THEN "cannot_connect"
                                     ELSE IF raised = "InvalidAuth"
                                     THEN "invalid_auth"
                                     ELSE "unknown",
                          auth |-> outcome, code_sent |-> info.code_sent]]
                  /\ UNCHANGED <<flow_user_config, config_entries>>
             ELSE /\ flow_pc' = [flow_pc EXCEPT ![f] = "done"]
                  /\ flow_result' = [flow_result EXCEPT ![f] =
                         [type |-> "create_entry", detail |-> username,
                          auth |-> outcome, code_sent |-> info.code_sent]]
                  /\ config_entries' =
                         {entry \in config_entries :
                             entry.username # username}
                         \cup {[username |-> username, flow |-> f]}
                  /\ UNCHANGED flow_user_config
    /\ UNCHANGED flow_user_input
    /\ UNCHANGED <<streamVars, dataVars, tokenVars, entryVars, queryVars, sensorVars>>

\* async_step_validation(user_input): the user submits the validation form.
\* With no user_input or an empty one the step shows the form again; with
\* any other, whatever the code in it, the step reads self.user_pass, an
\* attribute nothing assigns
SubmitValidation(f) ==
    /\ flow_pc[f] = "validation"
    /\ \E user_input \in {None} \cup {Some(code) : code \in Codes} :
          flow_result' = [flow_result EXCEPT ![f] =
              IF user_input # None
              THEN [type |-> "raised", detail |-> "AttributeError",
                    auth |-> "", code_sent |-> FALSE]
              ELSE [type |-> "form", detail |-> "validation", auth |-> "",
                    code_sent |-> FALSE]]
    /\ flow_result' # flow_result
    /\ UNCHANGED <<flow_pc, flow_user_input, flow_user_config, config_entries>>
    /\ UNCHANGED <<streamVars, dataVars, tokenVars, entryVars, queryVars, sensorVars>>

FlowNext ==
    \E f \in FlowIds :
        \/ StartUserFlow(f)
        \/ StartImportFlow(f)
        \/ SubmitUserInput(f)
        \/ ValidateInputReturns(f)
        \/ SubmitValidation(f)

\* a session and the handlers that read and operate its locks
DataNext ==
    \/ Construct
    \/ AdvanceClock
    \/ AsyncUpdateEntity
    \/ UpdateLocksDetail
    \/ EntityResumesWithDetail
    \/ UpdateFacadeActivities
    \/ EntityResumesWithActivity
    \/ CallLockOperation
    \/ LockOperation
    \/ CallLockOperationResumes
    \/ AsyncGetLockDetail
    \/ AsyncGetLockDetailReturns

\* a session and the handler that reads its doorbells
DoorbellNext ==
    \/ Construct
    \/ AdvanceClock
    \/ AsyncGetDoorbellDetail
    \/ UpdateDoorbellsDetail
    \/ AsyncGetDoorbellDetailReturns

\* no session exists: the state of the facade's variables in a run of the
\* activity stream alone
DataIdle == DataInit({}, {})

\* no reader, no sensor and no flow
OtherIdle == QueryInit /\ SensorIdle /\ FlowIdle

\* no caller and no entry
RestIdle == TokenInit /\ token_valid /\ EntryInit /\ OtherIdle

\* no stream exists: the state of the stream's variables in a run of the
\* facade alone
StreamIdle ==
    /\ house_order = <<>>
    /\ latest_activities_by_id_type = <<>>
    /\ timer_active = FALSE
    /\ tick_pc = [k \in Ticks |-> "idle"]
    /\ tick_houses = [k \in Ticks |-> <<>>]
    /\ tick_activities = [k \in Ticks |-> <<>>]
    /\ updated_device_ids = [k \in Ticks |-> {}]
    /\ tick_error = [k \in Ticks |-> ""]
    /\ signals = [k \in Ticks |-> [d \in DeviceIds |-> 0]]
    /\ tick_replaced = [k \in Ticks |-> {}]
    /\ tick_discarded = [k \in Ticks |-> {}]
    /\ reading = None
    /\ query = NoQuery

\* a session of an account with one lock at most and no doorbell
Init == DataInit({"L1"}, {}) /\ StreamIdle /\ RestIdle

Spec == Init /\ [][DataNext]_vars

\* a session of an account with doorbells and no lock
DoorbellInit == DataInit({}, DoorbellIds) /\ StreamIdle /\ RestIdle

SpecDoorbell == DoorbellInit /\ [][DoorbellNext]_vars

\* the construction of a session, for an account with any of the devices
SetupInit == DataInit(LockIds, DoorbellIds) /\ StreamIdle /\ RestIdle

SetupNext == Construct

SpecSetup == SetupInit /\ [][SetupNext]_vars

\* a session of an account with any of the devices, and the handler that
\* reads its doorbells
SpecHouses == SetupInit /\ [][DoorbellNext]_vars

\* a session and a reader of its activities
ActivitiesNext ==
    \/ Construct
    \/ AdvanceClock
    \/ AsyncGetDeviceActivities
    \/ UpdateFacadeActivities
    \/ AsyncGetDeviceActivitiesReturns

SpecActivities == Init /\ [][ActivitiesNext]_vars

\* one doorbell sensor and the table of the stream it reads, with no tick
\* of the stream and no session, caller or entry modelled
SensorAloneInit ==
    /\ SensorInit
    /\ QueryInit
    /\ FlowIdle
    /\ TokenInit
    /\ token_valid
    /\ EntryInit
    /\ DataIdle
    /\ house_order = <<>>
    /\ latest_activities_by_id_type \in SensorTables
    /\ timer_active = TRUE
    /\ tick_pc = [k \in Ticks |-> "idle"]
    /\ tick_houses = [k \in Ticks |-> <<>>]
    /\ tick_activities = [k \in Ticks |-> <<>>]
    /\ updated_device_ids = [k \in Ticks |-> {}]
    /\ tick_error = [k \in Ticks |-> ""]
    /\ signals = [k \in Ticks |-> [d \in DeviceIds |-> 0]]
    /\ tick_replaced = [k \in Ticks |-> {}]
    /\ tick_discarded = [k \in Ticks |-> {}]
    /\ reading = None
    /\ query = NoQuery

SpecSensor == SensorAloneInit /\ [][SensorNext]_vars

\* a stream and no session
StreamAloneInit == StreamInit /\ DataIdle /\ RestIdle

SpecStream == StreamAloneInit /\ [][StreamNext]_vars

\* the stream of one house at most, and an entity that reads it during the
\* ticks
StreamReadInit == StreamAloneInit /\ Len(house_order) <= 1

SpecStreamRead == StreamReadInit /\ [][StreamReadNext]_vars

\* the session of an account with one lock at most and the callers of its
\* token refresh, with no stream
TokenAloneInit ==
    TokenInit /\ EntryInit /\ DataInit({"L1"}, {}) /\ StreamIdle /\ OtherIdle

SpecToken == TokenAloneInit /\ [][TokenNext]_vars

\* a config entry of an account with one lock at most.  Nothing in
\* __init__.py makes an ActivityStream, so no stream exists
EntryAloneInit ==
    /\ EntryInit
    /\ TokenInit
    /\ token_valid
    /\ DataInit({"L1"}, {})
    /\ StreamIdle
    /\ OtherIdle

SpecEntry == EntryAloneInit /\ [][EntryNext]_vars

\* the config flows, before any config entry exists
FlowAloneInit ==
    /\ FlowIdle
    /\ QueryInit
    /\ SensorIdle
    /\ TokenInit
    /\ token_valid
    /\ EntryInit
    /\ DataIdle
    /\ StreamIdle

SpecFlow == FlowAloneInit /\ [][FlowNext]_vars

\* ------------------------------------------------------------------------
\* Properties of the activity stream
\* ------------------------------------------------------------------------

\* the cached entry of a key, None when the table has none
Cached(table, device_id, activity_type) ==
    IF device_id \in DOMAIN table
    THEN DictGet(table[device_id], activity_type)
    ELSE None

\* call k takes the step: its place or the rest of its feed changes
TickSteps(k) ==
    \/ tick_pc'[k] # tick_pc[k]
    \/ tick_activities'[k] # tick_activities[k]

\* the merge loop of call k is about to take an activity older than the
\* cached one
HeadIsOlder(k) ==
    /\ tick_pc[k] = "process"
    /\ tick_activities[k] # <<>>
    /\ LET a == Head(tick_activities[k])
           c == Cached(latest_activities_by_id_type, a.device_id,
                       a.activity_type)
       IN /\ c # None
          /\ a.activity_start_time < c[1].activity_start_time

\* C1: for every (device_id, activity_type) key, the activity_start_time of
\* the cached latest entry never decreases from one state to the next, and a
\* cached entry is never removed.
C1_StartTimeNeverDecreases ==
    [][\A d \in DeviceIds, t \in ActivityTypes :
          LET before == Cached(latest_activities_by_id_type, d, t)
              after == Cached(latest_activities_by_id_type', d, t)
          IN before # None =>
                /\ after # None
                /\ after[1].activity_start_time
                      >= before[1].activity_start_time]_vars

\* C2: processing an activity that is older than the cached entry of its key
\* leaves the table and the set of updated devices as they were, and sends
\* no signal: the pass ends at the comparison, and no assignment follows.
C2_OlderActivityChangesNothing ==
    [][\A k \in Ticks :
          (HeadIsOlder(k) /\ TickSteps(k)) =>
              (/\ latest_activities_by_id_type'
                      = latest_activities_by_id_type
               /\ updated_device_ids'[k] = updated_device_ids[k]
               /\ signals' = signals
               /\ tick_pc'[k] # "assign")]_vars

\* the merge of a call skipped an activity of a device and marked no device
\* updated
C2_Witness ==
    \E k \in Ticks :
        /\ tick_pc[k] = "process"
        /\ tick_discarded[k] # {}
        /\ updated_device_ids[k] = {}
        /\ tick_replaced[k] = {}

\* C3: when a tick is over, one signal was sent for each device an entry of
\* which the tick replaced, and none for any other device.
C3_OneSignalPerUpdatedDevice ==
    \A k \in Ticks :
        tick_pc[k] = "returned" =>
            \A d \in DeviceIds :
                signals[k][d] = IF d \in tick_replaced[k] THEN 1 ELSE 0

\* the activities recorded for a device whose type is among activity_types
Matches(table, device_id, activity_types) ==
    IF device_id \notin DOMAIN table THEN {}
    ELSE {table[device_id][t] :
             t \in {activity_types[i] : i \in 1..Len(activity_types)}
                   \cap DOMAIN table[device_id]}

\* C10: get_latest_device_activity returns one activity, a recorded match
\* with the greatest activity_start_time, and None when nothing matches or
\* the device has no recorded activity.
C10_ReturnsFreshestMatch ==
    query # NoQuery =>
        LET m == Matches(latest_activities_by_id_type, query.device_id,
                         query.activity_types)
        IN /\ query.raised = ""
           /\ IF m = {}
              THEN query.type = "NoneType"
              ELSE /\ query.type = "Activity"
                   /\ Len(query.items) = 1
                   /\ query.items[1] \in m
                   /\ \A a \in m : a.activity_start_time
                                      <= query.items[1].activity_start_time

\* ------------------------------------------------------------------------
\* Properties of the session facade
\* ------------------------------------------------------------------------

\* C4: counting from the construction of the session, a requested detail
\* refresh of a device type performs a batch fetch exactly when more than
\* MIN_TIME_BETWEEN_DETAIL_UPDATES has passed since the last batch fetch of
\* that type: two requests within the window make one fetch, a request after
\* the window makes one more.
C4_OneFetchPerWindow ==
    \A r \in last_refresh :
        (r.device_type \in {"lock", "doorbell"} /\ r.since_fetch # None) =>
            (r.ran <=> r.since_fetch[1] > MIN_TIME_BETWEEN_DETAIL_UPDATES)

\* the devices of a batch whose fetch raised a RequestException
RequestErrors(batch) ==
    {d \in Range(batch.devices) :
        batch.responses[d].raised = "RequestException"}

\* C5: a batch over N devices in which the fetch of one device raises a
\* RequestException and the other fetches succeed returns a mapping with a
\* key for each of the N devices, None for the failing device and the fetched
\* detail for each other device, and calls the vendor for every device, those
\* after the failing one included.
C5_RequestErrorKeepsBatch ==
    \A b \in last_batch :
        LET failing == RequestErrors(b)
            others == Range(b.devices) \ failing
        IN (/\ Cardinality(failing) = 1
            /\ \A d \in others : b.responses[d].raised = "") =>
               /\ b.raised = ""
               /\ DOMAIN b.detail_by_id = Range(b.devices)
               /\ \A d \in failing : b.detail_by_id[d] = None
               /\ \A d \in others :
                     b.detail_by_id[d] = b.responses[d].detail
               /\ b.calls = b.devices

\* a batch of two devices: the fetch of the first raised a RequestException
\* and the second was fetched
C5_Witness ==
    \E b \in last_batch :
        /\ Len(b.devices) = 2
        /\ b.responses[b.devices[1]].raised = "RequestException"
        /\ b.responses[b.devices[2]].raised = ""
        /\ b.detail_by_id[b.devices[2]] # None

\* the detail of the first fetch says the lock has an operative bridge
OperativeAtFirstFetch(device_id) ==
    /\ device_id \in DOMAIN first_lock_detail
    /\ first_lock_detail[device_id] # None
    /\ first_lock_detail[device_id][1].bridge # None
    /\ first_lock_detail[device_id][1].bridge[1].operative = TRUE

\* C6: after the filter ran, a discovered lock is active if and only if its
\* detail of the first fetch is present, has a bridge, and the bridge is
\* operative; the active locks are in the order of their discovery.
C6_ActiveIffOperative ==
    filter_runs = 1 =>
        /\ \A d \in Range(api_locks) :
              d \in Range(locks) <=> OperativeAtFirstFetch(d)
        /\ locks = SelectSeq(api_locks, LAMBDA d : d \in Range(locks))

\* of two discovered locks the first was dropped for a bridge that is not
\* operative and the second was kept
C6_Witness ==
    /\ filter_runs = 1
    /\ Len(api_locks) = 2
    /\ locks = <<api_locks[2]>>
    /\ first_lock_detail[api_locks[1]] # None
    /\ first_lock_detail[api_locks[1]][1].bridge = Some([operative |-> FALSE])

\* C7: once the session is constructed, no step changes the active locks or
\* runs the filter again, and the filter has run once.
C7_ActiveLocksFixed ==
    [][session = "ready" =>
          /\ locks' = locks
          /\ filter_runs' = filter_runs
          /\ filter_runs = 1]_vars

\* a refresh after the construction found the active lock without a bridge,
\* and the lock is still active
C7_Witness ==
    /\ session = "ready"
    /\ locks = <<"L1">>
    /\ throttle["locks_detail"] # None
    /\ "L1" \in DOMAIN lock_detail_by_id
    /\ lock_detail_by_id["L1"] # None
    /\ lock_detail_by_id["L1"][1].bridge = None

\* the words of a message hold the given words, one after the other
Contains(text, words) ==
    \E i \in 0..(Len(text) - Len(words)) :
        SubSeq(text, i + 1, i + Len(words)) = words

\* C8: when the vendor call of lock or unlock fails with an
\* AugustApiHTTPError, the message of the error the facade raises holds the
\* name of the device and the name of the operation.
C8_MessageNamesDeviceAndOperation ==
    last_command.raised = "HomeAssistantError" =>
        /\ Contains(last_command.message, DeviceName(last_command.device_id))
        /\ Contains(last_command.message, <<last_command.operation_name>>)

\* the lock status a lock or unlock operation leaves
ImpliedStatus(operation_name) ==
    IF operation_name = "lock" THEN "LOCKED" ELSE "UNLOCKED"

\* C9: when a lock or unlock succeeded and returned activities, the read of
\* the detail of that lock that follows makes no vendor fetch and returns a
\* detail with the lock status of the operation.
C9_ReadAfterCommandHasStatus ==
    (/\ last_command.raised = ""
     /\ last_command.activities # <<>>
     /\ last_read.device_id = last_command.device_id) =>
        /\ ~last_read.fetched
        /\ last_read.raised = ""
        /\ last_read.value # None
        /\ last_read.value[1].lock_status =
               ImpliedStatus(last_command.operation_name)

\* ------------------------------------------------------------------------
\* Properties of the token refresh, the stop of the stream and the setup
\* ------------------------------------------------------------------------

\* the callers whose refresh call to the authenticator is in flight
InFlight == {c \in Callers : caller_pc[c] \in {"refreshing", "storing"}}

\* C11: whatever the order in which the callers run, at most one call of the
\* authenticator's token refresh is in flight, and the caller that makes it
\* holds the lock.
C11_OneRefreshInFlight ==
    /\ Cardinality(InFlight) <= 1
    /\ \A c \in InFlight : token_refresh_lock = Some(c)

\* one caller is refreshing while another waits for the lock
C11_Witness ==
    \E c, w \in Callers :
        /\ caller_pc[c] = "refreshing"
        /\ caller_pc[w] = "waiting"

\* C12: a caller that holds the lock while the token is valid again (it
\* found the token in need of a refresh, waited, and another caller
\* refreshed it meanwhile) ends without a token refresh: the count of
\* refreshes and the token stay as they are.
C12_NoSecondRefresh ==
    [][\A c \in Callers :
          (/\ caller_pc[c] = "refreshing"
           /\ caller_pc'[c] # "refreshing"
           /\ token_valid) =>
              /\ token_refreshes' = token_refreshes
              /\ token_valid'
              /\ caller_result'[c] = "unchanged"]_vars

\* a caller went through the lock after another caller's refresh and left
\* the token alone
C12_Witness ==
    \E c, o \in Callers :
        /\ c # o
        /\ caller_result[c] = "unchanged"
        /\ caller_result[o] = "refreshed"
        /\ token_refreshes = 1

\* C13: once stop() has returned, no step of a poll tick is taken: no house
\* feed is fetched, the table stays as it is and no signal is sent.
C13_NoTickAfterStop ==
    [][~timer_active =>
          (/\ \A k \in Ticks :
                 ~(tick_pc[k] = "fetch" /\ tick_pc'[k] = "process")
           /\ latest_activities_by_id_type' = latest_activities_by_id_type
           /\ signals' = signals)]_vars

\* the place in a batch of the first device whose fetch raised an exception
\* that is not a RequestException; 0 when there is none
FirstUnexpected(batch) ==
    LET at == {i \in 1..Len(batch.devices) :
                  batch.responses[batch.devices[i]].raised = "Exception"}
    IN IF at = {} THEN 0
       ELSE CHOOSE i \in at : \A j \in at : i <= j

\* C14: when the fetch of a device of a batch raises an exception that is
\* not a RequestException, the batch raises it, the vendor is called for no
\* later device, and the mapping the facade holds for the device type is
\* not replaced.
C14_UnexpectedErrorAborts ==
    [][\A b \in last_batch' :
          FirstUnexpected(b) # 0 =>
             /\ b.raised = "Exception"
             /\ b.calls = SubSeq(b.devices, 1, FirstUnexpected(b))
             /\ b.device_type = "lock" =>
                    lock_detail_by_id' = lock_detail_by_id
             /\ b.device_type = "doorbell" =>
                    doorbell_detail_by_id' = doorbell_detail_by_id]_vars

\* the fetch of the first of two locks raised, and the second was not called
C14_Witness ==
    \E b \in last_batch :
        /\ b.device_type = "lock"
        /\ Len(b.devices) = 2
        /\ b.responses[b.devices[1]].raised = "Exception"
        /\ b.calls = <<b.devices[1]>>
        /\ session = "failed"
        /\ lock_detail_by_id = <<>>

\* C15: a run of async_setup_august goes on to create the session only when
\* authenticate returned AUTHENTICATED; for every other outcome it returns
\* False (no exception that would make the core retry), stores no session,
\* forwards no platform, and starts a re-verification request exactly
\* when the outcome is REQUIRES_VALIDATION (the run then returns False when
\* the request is registered).  Session data and the tasks that forward the
\* platforms appear only when a run resumes from the construction, which
\* only an AUTHENTICATED outcome leads to.
C15_SetupOnlyWhenAuthenticated ==
    [][/\ setups' # setups =>
             \E run \in Runs :
                /\ run_pc[run] = "authenticating"
                /\ run_pc'[run] # "authenticating"
                /\ IF last_auth' = "AUTHENTICATED"
                   THEN /\ run_pc'[run] = "constructing"
                        /\ config_requests' = config_requests
                        /\ codes_sent' = codes_sent
                   ELSE /\ run_pc'[run] # "constructing"
                        /\ hass_data' = hass_data
                        /\ forwarded' = forwarded
                        /\ forward_tasks' = forward_tasks
                        /\ ((config_requests' # config_requests
                                \/ run_pc'[run] = "sending")
                               <=> last_auth' = "REQUIRES_VALIDATION")
                        /\ (run_pc'[run] = "idle" =>
                               setup_result' = "False")
       /\ (\E run \in Runs : run_pc[run] = "sent" /\ run_pc'[run] = "idle") =>
             /\ setup_result' = "False"
             /\ hass_data' = hass_data
             /\ forwarded' = forwarded
             /\ forward_tasks' = forward_tasks
       /\ (\A run \in Runs :
              (run_pc[run] # "constructing" /\ run_pc'[run] = "constructing")
                 => (/\ run_pc[run] = "authenticating"
                     /\ setups' = setups + 1
                     /\ last_auth' = "AUTHENTICATED"))
       /\ ((hass_data' # hass_data /\ hass_data' # None)
             \/ (\E p \in PLATFORMS : forward_tasks'[p] > forward_tasks[p])) =>
             \E run \in Runs :
                /\ run_pc[run] = "constructed"
                /\ run_pc'[run] = "idle"
                /\ setup_result' = "True"]_vars

\* a setup ended on a state that is none of the three named ones
C15_Witness ==
    /\ last_auth = "REQUIRES_AUTHENTICATION"
    /\ setup_result = "False"
    /\ entry_state = "setup_error"
    /\ hass_data = None
    /\ forwarded = <<>>
    /\ ~configuring

\* C16: a read of the detail of a device that has no entry in the cache
\* returns None and does not raise.
C16_MissingDetailIsNull ==
    (/\ last_read.device_id \in LockIds
     /\ last_read.device_id \notin DOMAIN lock_detail_by_id
     /\ last_read.raised \in {"", "KeyError"}) =>
        /\ last_read.raised = ""
        /\ last_read.value = None

\* the throttled method behind a request, and its window
MethodOf(device_type) ==
    IF device_type = "lock" THEN "locks_detail"
    ELSE IF device_type = "doorbell" THEN "doorbells_detail"
    ELSE "device_activities"

WindowOf(device_type) ==
    IF device_type = "activity" THEN MIN_TIME_BETWEEN_ACTIVITY_UPDATES
    ELSE MIN_TIME_BETWEEN_DETAIL_UPDATES

\* C17: a throttled refresh requested within the window of its last run
\* does not run; a request that does not run makes no vendor call and
\* leaves the cached activities, and the cached detail mapping a read
\* goes through, as they were.
C17_ThrottledRefreshIsNoOp ==
    [][\A r \in last_refresh' :
          LET last_called == throttle[MethodOf(r.device_type)]
          IN /\ (/\ last_called # None
                 /\ now - last_called[1] <= WindowOf(r.device_type)) => ~r.ran
             /\ ~r.ran =>
                   /\ \A b \in last_batch' : b.device_type # r.device_type
                   /\ throttle'[MethodOf(r.device_type)] = last_called
                   /\ r.device_type = "activity" =>
                          activities_by_id' = activities_by_id
                   /\ (r.device_type = "lock" /\ last_read' # NoRead) =>
                          lock_detail_by_id' = lock_detail_by_id]_vars

\* an entity's update inside both windows: neither refresh ran, and the
\* caches hold what earlier runs left
C17_Witness ==
    /\ \E r \in last_refresh : r.device_type = "activity" /\ ~r.ran
    /\ \E r \in last_refresh : r.device_type = "lock" /\ ~r.ran
    /\ activities_by_id # <<>>
    /\ lock_detail_by_id # <<>>

\* the merge loop of call k is about to take an activity that is not newer
\* than the cached one
HeadIsNotNewer(k) ==
    /\ tick_pc[k] = "process"
    /\ tick_activities[k] # <<>>
    /\ LET a == Head(tick_activities[k])
           c == Cached(latest_activities_by_id_type, a.device_id,
                       a.activity_type)
       IN /\ c # None
          /\ a.activity_start_time <= c[1].activity_start_time

\* C18: processing an activity whose start time is equal to or older than
\* the cached entry of its key leaves that entry in place and does not mark
\* the device updated.
C18_NotNewerIsDiscarded ==
    [][\A k \in Ticks :
          (HeadIsNotNewer(k) /\ TickSteps(k)) =>
              LET a == Head(tick_activities[k])
              IN /\ Cached(latest_activities_by_id_type', a.device_id,
                           a.activity_type)
                        = Cached(latest_activities_by_id_type, a.device_id,
                                 a.activity_type)
                 /\ updated_device_ids'[k] = updated_device_ids[k]
                 /\ tick_pc'[k] # "assign"]_vars

\* C19: after async_unload_entry returned True no timer of the session is
\* active and the HTTP session of the connection is closed.
C19_UnloadStopsAndCloses ==
    last_unload.returned = "True" =>
        /\ ~timer_active
        /\ last_unload.connection \notin api_http_sessions

C25_HouseIdsFixedAtStart ==
    /\ [](session # "new" =>
             house_ids = {DeviceHouse(d) :
                             d \in Range(doorbells) \cup Range(api_locks)})
    /\ [][session # "new" => house_ids' = house_ids]_vars

\* time has passed since the constructor ran for an account with locks and
\* doorbells: a lock was filtered out and its house, which no other device
\* is in, is still polled, and so is a house that only a doorbell is in
C25_Witness ==
    /\ session = "ready"
    /\ advances > 0
    /\ filter_runs = 1
    /\ \E d \in Range(api_locks) :
           /\ d \notin Range(locks)
           /\ DeviceHouse(d) \in house_ids
           /\ \A e \in (Range(api_locks) \cup Range(doorbells)) \ {d} :
                  DeviceHouse(e) # DeviceHouse(d)
    /\ \E b \in Range(doorbells) :
           /\ DeviceHouse(b) \in house_ids
           /\ \A e \in Range(api_locks) : DeviceHouse(e) # DeviceHouse(b)


\* the detail of a fetch says the lock has an operative bridge
OperativeIn(detail_by_id, device_id) ==
    /\ device_id \in DOMAIN detail_by_id
    /\ detail_by_id[device_id] # None
    /\ detail_by_id[device_id][1].bridge # None
    /\ detail_by_id[device_id][1].bridge[1].operative = TRUE

\* the constructor of an AugustData went through: it fetched the lock
\* details and ran the filter once, on what that fetch returned
Filtered(data) ==
    /\ data.session = "ready"
    /\ data.last_fetch["lock"] # None
    /\ data.filter_runs = 1
    /\ \A d \in Range(api_locks) :
           d \in Range(data.locks) <=> OperativeIn(data.first_lock_detail, d)

\* ------------------------------------------------------------------------
\* C26: at session start the lock details are fetched, then the locks are
\* filtered on what that first fetch returned, and only then is any platform
\* set up: whenever a platform has been forwarded the filter has run once,
\* on the details of the first fetch
\* ------------------------------------------------------------------------
C26_FilterBeforePlatforms ==
    /\ [](hass_data # None => Filtered(hass_data[1].data))
    /\ [][/\ (\E p \in PLATFORMS : forward_tasks'[p] > forward_tasks[p]) =>
                \E run \in Runs :
                   /\ run_pc[run] = "constructed"
                   /\ run_pc'[run] = "idle"
                   /\ Filtered(run_data[run][1])
                   /\ hass_data' # None
                   /\ hass_data'[1].data = run_data[run][1]
          /\ \A p \in PLATFORMS :
                (p \in DOMAIN forwarded' /\ p \notin DOMAIN forwarded) =>
                   forward_tasks'[p] = forward_tasks[p] - 1]_vars

\* the platforms were set up after a lock had been filtered out
C26_Witness ==
    /\ DOMAIN forwarded = PLATFORMS
    /\ hass_data # None
    /\ hass_data[1].data.filter_runs = 1
    /\ \E d \in Range(api_locks) : d \notin Range(hass_data[1].data.locks)

\* ------------------------------------------------------------------------
\* C27: an entry that has session data has no re-verification request
\* registered
\* ------------------------------------------------------------------------
C27_NoRequestWhileLoaded ==
    hass_data # None => ~configuring

\* ------------------------------------------------------------------------
\* C30: the send of a verification code is started only by a
\* REQUIRES_VALIDATION outcome that finds no request registered for the
\* entry, and a code is sent only while no request is registered for the
\* entry, one for each send that was started; an outcome that finds a
\* request registered sends none and registers its own; and the registered
\* request is one the configurator still shows
\* ------------------------------------------------------------------------
C30_OneCodePerPendingRequest ==
    /\ [][/\ \A run \in Runs :
                (run_pc[run] # "sending" /\ run_pc'[run] = "sending") =>
                   (/\ ~configuring
                    /\ run_pc[run] = "authenticating"
                    /\ setups' = setups + 1
                    /\ last_auth' = "REQUIRES_VALIDATION")
          /\ codes_sent' # codes_sent =>
                (/\ ~configuring
                 /\ codes_sent' = codes_sent + 1
                 /\ \E run \in Runs :
                        run_pc[run] = "sending" /\ run_pc'[run] = "sent")
          /\ (configuring /\ setups' # setups
                 /\ last_auth' = "REQUIRES_VALIDATION") =>
                (/\ \A run \in Runs :
                        run_pc'[run] = "sending" => run_pc[run] = "sending"
                 /\ codes_sent' = codes_sent
                 /\ config_requests' = config_requests + 1
                 /\ configuring')]_vars
    /\ [](configuring =>
             (open_requests # {} /\ config_requests > requests_done))


\* ------------------------------------------------------------------------
\* C23: a lock or unlock that the vendor performed, with activities in its
\* answer, raises nothing, also before the entity read a detail, and leaves
\* the detail the cache holds for the lock with the status of the operation,
\* also when a refresh replaced the cached mapping since the entity's read
\* ------------------------------------------------------------------------
C23_PatchReachesCachedDetail ==
    [][(last_command' # last_command /\ last_command'.activities # <<>>) =>
          (/\ last_command'.raised = ""
           /\ LET d == last_command'.device_id
              IN (d \in DOMAIN lock_detail_by_id'
                     /\ lock_detail_by_id'[d] # None)
                    => lock_detail_by_id'[d][1].lock_status =
                           ImpliedStatus(last_command'.operation_name))]_vars

\* the same, for the commands of an entity that has read a detail
C23_PatchAfterReplacedMapping ==
    [][(/\ last_command' # last_command
        /\ last_command'.activities # <<>>
        /\ last_command'.raised = "") =>
          LET d == last_command'.device_id
          IN (d \in DOMAIN lock_detail_by_id' /\ lock_detail_by_id'[d] # None)
                => lock_detail_by_id'[d][1].lock_status =
                       ImpliedStatus(last_command'.operation_name)]_vars


\* ------------------------------------------------------------------------
\* C24: a read of a device's activities first goes through the throttled
\* activity refresh (the refresh is handed to the executor exactly when the
\* call is outside the window, and has ended when the read returns), and
\* returns the activities the cache then holds for the device whose type is
\* among the given ones, in the order of the cache; all of them when no type
\* is given, and none for a device the cache has no entry for
\* ------------------------------------------------------------------------
C24_ReturnsCachedActivitiesOfTypes ==
    [][/\ (last_activities' # last_activities
              /\ last_activities'.device_id # "") =>
             LET q == last_activities'
                 cached == IF q.device_id \in DOMAIN activities_by_id'
                           THEN activities_by_id'[q.device_id] ELSE <<>>
             IN /\ activities_by_id' = activities_by_id
                /\ q.ran => \E j \in JobsOf("device_activities",
                                              "finished") :
                                jobs' = jobs \ {j}
                /\ ~q.ran =>
                      /\ ~ThrottleRuns(throttle["device_activities"],
                                       MIN_TIME_BETWEEN_ACTIVITY_UPDATES)
                      /\ jobs' = jobs
                /\ Len(q.returned) <= Len(cached)
                /\ q.activity_types = {} => q.returned = cached
                /\ q.activity_types # {} =>
                       q.returned =
                           SelectSeq(cached,
                                     LAMBDA a : a.activity_type
                                                    \in q.activity_types)
       /\ (\E j \in jobs' \ jobs : /\ j.method = "device_activities"
                                     /\ j.pc = "submitted") =>
             /\ ThrottleRuns(throttle["device_activities"],
                             MIN_TIME_BETWEEN_ACTIVITY_UPDATES)
             /\ activities_by_id' = activities_by_id]_vars

\* a read with one type returned one of the two activities of the device
C24_Witness ==
    /\ Cardinality(last_activities.activity_types) = 1
    /\ Len(last_activities.returned) = 1
    /\ last_activities.device_id \in DOMAIN activities_by_id
    /\ Len(activities_by_id[last_activities.device_id]) = 2


\* ------------------------------------------------------------------------
\* C22: at most one _async_update of the stream is between its start and
\* its return, so no two of them merge at the same time
\* ------------------------------------------------------------------------
C22_OneTickAtATime ==
    Cardinality({k \in Ticks : tick_pc[k] \notin {"idle", "returned"}}) <= 1


\* C21: a token refresh is started by a caller of the activity update and by
\* no vendor call of a detail refresh or of a lock command; the activity
\* update fetches the house activities after its call of the refresh has
\* returned, with the token the authenticator holds then
\* ------------------------------------------------------------------------
C21_RefreshOnlyBeforeActivityFetch ==
    [][/\ (last_api_call' # last_api_call
              /\ last_api_call'.path \in DetailAndCommandPaths) =>
             (/\ token_refreshes' = token_refreshes
              /\ caller_pc' = caller_pc
              /\ token_refresh_lock' = token_refresh_lock)
       /\ (last_api_call' # last_api_call
              /\ last_api_call'.path = "activities") =>
             (/\ caller_pc[last_api_call'.caller] = "idle"
              /\ caller_result[last_api_call'.caller]
                     \in {"not_needed", "refreshed", "unchanged"}
              /\ last_api_call'.token = token_refreshes)
       /\ token_refreshes' # token_refreshes =>
             \E c \in Callers :
                 /\ caller_pc[c] = "refreshing"
                 /\ caller_result'[c] = "refreshed"]_vars

\* ------------------------------------------------------------------------
\* The verification code callback and the unload of the entry
\* ------------------------------------------------------------------------

\* C31: a submitted verification code that the authenticator calls
\* INVALID_VERIFICATION_CODE gets an error reported on the pending request,
\* setup is not run again, the request stays registered and the callback
\* returns False; a code it calls VALIDATED runs async_setup_august again
\* and the callback returns what that returns
C31_CodeCallbackOutcomes ==
    [][\A run \in Runs :
          /\ (run_pc[run] = "validating" /\ run_pc'[run] # "validating") =>
                \/ /\ last_validation'.result = "INVALID_VERIFICATION_CODE"
                   /\ last_validation'.errors_notified
                   /\ last_validation'.returned = "False"
                   /\ run_pc'[run] = "idle"
                   /\ setups' = setups
                   /\ configuring'
                \/ /\ last_validation'.result = ""
                   /\ run_pc'[run] = "authenticating"
                   /\ run_origin'[run] = "callback"
          /\ (/\ run_origin[run] = "callback"
              /\ run_pc[run] \notin {"idle", "validating"}
              /\ run_pc'[run] = "idle") =>
                /\ last_validation'.result = "VALIDATED"
                /\ last_validation'.returned = setup_result']_vars

\* C32: async_unload_entry removes the session of the entry exactly when
\* every platform unloaded; when a platform did not, the session stays in
\* hass.data and the unload returns False
C32_UnloadRemovesIffAllUnloaded ==
    [][\A u \in unloads :
          (u \notin unloads' /\ u.results # None) =>
             LET all_unloaded == \A p \in PLATFORMS : u.results[1][p]
             IN /\ all_unloaded => hass_data' = None
                /\ ~all_unloaded =>
                       (hass_data' = hass_data
                        /\ last_unload'.returned = "False")
                /\ hass_data # None =>
                       (last_unload'.returned = "True" <=> all_unloaded)]_vars

\* an unload in which only some of the platforms unloaded
C32_Witness ==
    /\ last_unload.returned = "False"
    /\ hass_data # None
    /\ DOMAIN forwarded # {}
    /\ DOMAIN forwarded # PLATFORMS

\* ------------------------------------------------------------------------
\* The keys of the lock detail cache and a batch refresh that aborts
\* ------------------------------------------------------------------------

\* C33: once the session is constructed every lock of self._locks has a key
\* in self._lock_detail_by_id, whatever the throttled refreshes met, and a
\* detail lookup for such a lock does not raise KeyError
C33_ActiveLocksHaveDetailKey ==
    session = "ready" =>
        /\ \A d \in Range(locks) : d \in DOMAIN lock_detail_by_id
        /\ last_read.device_id \in Range(locks) =>
               last_read.raised # "KeyError"

\* a refresh after the construction met a request failure for an active
\* lock (it left None where the constructor's fetch had left a detail), and
\* the read that waited for the refresh returned
C33_Witness ==
    /\ session = "ready"
    /\ advances > 0
    /\ \E d \in Range(locks) :
          /\ last_read.device_id = d
          /\ last_read.fetched
          /\ last_read.raised = ""
          /\ last_read.value = None
          /\ lock_detail_by_id[d] = None
          /\ first_lock_detail[d] # None

\* C34: a batch refresh that aborts on a failure other than a
\* RequestException leaves the cached mapping of its device type as it was
C34_AbortKeepsCachedMapping ==
    [][\A b \in last_batch' :
          (b.raised # "") =>
              ( /\ (b.device_type = "lock" =>
                       lock_detail_by_id' = lock_detail_by_id)
                /\ (b.device_type = "doorbell" =>
                       doorbell_detail_by_id' = doorbell_detail_by_id) )]_vars

\* a refresh of a session that holds details aborted after it had built a
\* part of a mapping
C34_Witness ==
    /\ session = "ready"
    /\ advances > 0
    /\ \E b \in last_batch :
          /\ b.device_type = "doorbell"
          /\ b.raised = "Exception"
          /\ Len(b.calls) = 2
          /\ b.detail_by_id # doorbell_detail_by_id
          /\ DOMAIN doorbell_detail_by_id = {"B1", "B2"}

\* ------------------------------------------------------------------------
\* Properties of the config flow
\* ------------------------------------------------------------------------

\* C35: no flow creates a config entry for a username that has one: a user
\* or import step for a configured username aborts with already_configured,
\* also when another flow for the username was suspended in validate_input
\* at the same time
C35_NoSecondEntryForUsername ==
    [][\A f \in FlowIds :
          /\ ((flow_result'[f].type = "create_entry"
                  /\ flow_result[f].type # "create_entry") =>
                 ~username_in_configuration_exists(flow_result'[f].detail))
          /\ \A username \in Usernames :
                ((flow_pc[f] \in {"none", "user"}
                    /\ flow_user_input'[f] = Some(username)
                    /\ flow_pc'[f] = "validate_input") =>
                   ~username_in_configuration_exists(username))]_vars

\* C36: a flow whose authentication reports REQUIRES_VALIDATION shows the
\* validation step, and a verification code submitted there runs the user
\* step again with the credentials of self.user_config: the step does not
\* raise
C36_ValidationStepRerunsUserStep ==
    [][\A f \in FlowIds :
          /\ ((flow_pc[f] = "validate_input"
                  /\ flow_pc'[f] # "validate_input"
                  /\ flow_result'[f].auth = "REQUIRES_VALIDATION") =>
                 ( /\ flow_pc'[f] = "validation"
                   /\ flow_user_config'[f] = flow_user_input[f] ))
          /\ ((flow_pc[f] = "validation"
                  /\ flow_result'[f] # flow_result[f]
                  /\ flow_result'[f].detail # "validation") =>
                 ( /\ flow_result'[f].type # "raised"
                   /\ flow_pc'[f] \in {"validate_input", "done"}
                   /\ flow_user_input'[f] = flow_user_config[f] ))]_vars

====
